---------------------------- MODULE Spec2Model ----------------------------
(***************************************************************************)
(* The map session controller of transition (MainMap and MapRenderer,      *)
(* src/unnamed/part_002): base-layer switching, the component lifecycle    *)
(* with its event-bus subscriptions, and the polygon-draw selection.       *)
(*                                                                         *)
(* The specifications share the module, one per concern; each leaves the   *)
(* variables of the other concerns unchanged:                              *)
(*   SpecBaseLayer   handleZoomChange / handleLayerChange                  *)
(*   SpecLifecycle   componentDidMount / componentWillUnmount, map load,   *)
(*                   map error, event-bus delivery                         *)
(*   SpecSelection   draw tool, selection, deleteUnusedNodes requests      *)
(*   SpecResolution  the polygon-to-selection resolution of                *)
(*                   handleDrawPolygonService over candidate features      *)
(*   SpecStyle       style reloads: onStyleChange, the enabled layers, the *)
(*                   layer-switch control and the aerial raster source     *)
(***************************************************************************)
EXTENDS Integers, Sequences, FiniteSets, TLC

VARIABLES
    \* ---- base-layer switcher (MainMap fields and React state) ----
    aerialTilesUrl,      \* TRUE iff an aerial tiles URL is configured
    aerialMinZoom,       \* this.aerialMinZoom
    aerialMaxZoom,       \* this.aerialMaxZoom
    showAerialTiles,     \* state.showAerialTiles
    currentZoom,         \* state.currentZoom
    userPreferredLayer,  \* state.userPreferredLayer: "osm" | "aerial"
    storedPreference,    \* the preference store's 'map.preferredBaseLayer'
    zlast,               \* history: the last base-layer handler and its pre-state
    \* ---- lifecycle ----
    phase,               \* "constructed" | "mounted" | "unmounted"
    subscribed,          \* event bus: the <<event name, handler>> pairs registered
    services,            \* serviceLocator: the services this component added
    nativeListeners,     \* the listeners registered on the map instance (map.on)
    resizeListener,      \* TRUE iff elementResizedEvent is bound to the container
    loadFired,           \* TRUE once the map's onLoad callback has run
    mapLoaded,           \* state.mapLoaded, as the handlers read it
    pendingMapLoaded,    \* a setState({mapLoaded: true}) queued and not yet applied
    loadedEmitted,       \* how many times 'map.loaded' was emitted
    mapErrors,           \* how many native map 'error' events have occurred
    llast,               \* history: the last lifecycle step and its pre-state
    \* ---- draw tool and selection ----
    activeSection,       \* props.activeSection
    draw,                \* TRUE iff this.draw holds a draw tool
    attachedTools,       \* how many draw tools are attached to the map
    toolPolygon,         \* the polygon the draw tool holds, or NoPolygon
    currentSelectionPolygon, \* this.currentSelectionPolygon, or NoPolygon (null)
    selection,           \* selectedObjectsManager: selection key -> sequence
    nodesCollection,     \* collectionManager.get('nodes'): the node ids present
    requests,            \* the deleteUnusedNodes requests not yet fully handled
    confirmModalDeleteIsOpen, \* state.confirmModalDeleteIsOpen
    slast,               \* history: the last selection step and what it emitted
    \* ---- polygon-to-selection resolution ----
    resCandidates,       \* collectionManager.get('nodes').getFeatures()
    resSelection,        \* selectedObjectsManager: selection key -> sequence
    resPolygon,          \* this.currentSelectionPolygon, or NoPolygon (null)
    rlast,               \* history: the last resolution step and its pre-state
    \* ---- map style, layers and the layer-switch control ----
    stateLayers,         \* state.layers: the layers configured for the section
    enabledLayers,       \* layerManager.getEnabledLayers()
    mapLayers,           \* the layer manager's layers present on the map
    customTiles,         \* TRUE iff the 'custom_tiles' source and layer are on the map
    styleLoaded,         \* map.isStyleLoaded()
    controls,            \* how many layer-switch controls are attached to the map
    menu,                \* this.mapControlsMenu: "none" | "attached" | "removed"
    pendingTimers,       \* deferred onStyleChange calls (setTimeout 0) not yet run
    stlast,              \* history: the last style step and its pre-state
    aerialVisibility,    \* the map's 'aerial' layer: its layout visibility
    initialShowAerialRef, \* MapRenderer's initialShowAerialRef.current
    aerialEffectDeps,    \* <<showAerialTiles, mapLoaded>> of the visibility effect's last run
    \* ---- deck.gl overlay (MainMap.getDeckLayers and MapRenderer) ----
    layerData,           \* layerManager: layer name -> the features of its source data
    mapZoom,             \* map.getZoom()
    busOrder,            \* event bus: the handlers of 'map.updateLayers', in registration order
    rendererMapLoaded,   \* the mapLoaded prop captured by MapRenderer's current effect
    effectDue,           \* the deps of MapRenderer's deck-layers effect have changed
    resubscribed,        \* TRUE once the effect has run again after its first run
    deckLayers,          \* MapRenderer's deckLayers state, shown by DeckGLControl
    olast,               \* history: the last overlay step and what its handlers read
    \* ---- native map events (MainMap.mapEvents and executeEvents) ----
    mapEvents,           \* this.mapEvents: event name -> layer name or 'map' -> descriptors
    elast,               \* history: the last native event and the handlers it invoked
    \* ---- routes (PrivateRoute, AdminRoute) ----
    routeProps,          \* the props of the route element last rendered
    routeOutcome         \* what the route element rendered

baseVars == <<aerialTilesUrl, aerialMinZoom, aerialMaxZoom, showAerialTiles,
              currentZoom, userPreferredLayer, storedPreference, zlast>>

lifeVars == <<phase, subscribed, services, nativeListeners, resizeListener,
              loadFired, mapLoaded, pendingMapLoaded, loadedEmitted, mapErrors, llast>>

selVars == <<activeSection, draw, attachedTools, toolPolygon, currentSelectionPolygon,
             selection, nodesCollection, requests,
             confirmModalDeleteIsOpen, slast>>

resVars == <<resCandidates, resSelection, resPolygon, rlast>>

styleVars == <<stateLayers, enabledLayers, mapLayers, customTiles, styleLoaded,
               controls, menu, pendingTimers, stlast,
               aerialVisibility, initialShowAerialRef, aerialEffectDeps>>

overlayVars == <<layerData, mapZoom, busOrder, rendererMapLoaded, effectDue,
                 resubscribed, deckLayers, olast>>

eventVars == <<mapEvents, elast>>

routeVars == <<routeProps, routeOutcome>>

vars == <<baseVars, lifeVars, selVars, resVars, styleVars, overlayVars,
          eventVars, routeVars>>

-----------------------------------------------------------------------------
(* Bounds *)

\* Zoom levels handed to handleZoomChange range over 0..MaxZoom.
MaxZoom == 25

Zooms == 0..MaxZoom

\* At most MaxMapErrors native 'error' events are fired by the map in a session.
MaxMapErrors == 2

\* The nodes of the collection are numbered 1..MaxNodes; node i lies at
\* position i of the map.
MaxNodes == 1

\* At most MaxRequests deleteUnusedNodes requests are in flight at a time.
MaxRequests == 1

\* At most MaxLayers layers are enabled at a time.
MaxLayers == 2

\* At most MaxHandlers event descriptors are registered for native map events.
MaxHandlers == 3

\* The nodes collection holds at most MaxCandidates candidate features when
\* the polygon-to-selection resolution is checked on its own.
MaxCandidates == 2

BaseLayers == {"osm", "aerial"}

\* The configured [minZoom, maxZoom] of the aerial source: the defaults of the
\* constructor (0 and 22) and a narrower configured range.
AerialRanges == {<<0, 22>>, <<10, 20>>}

-----------------------------------------------------------------------------
(* Base-layer switcher *)

\* MainMap.isZoomInAerialRange
isZoomInAerialRange(zoom, minZoom, maxZoom) == zoom >= minZoom /\ zoom <= maxZoom

\* Variants of handleZoomChange's visibility rule, each one plausible slip.
\* The turn-off branch forgets the range test.
zoomChange_offIgnoresRange(url, preferred, show, prevZoom, zoom, minZoom, maxZoom) ==
    IF ~url
    THEN show
    ELSE LET inRange == isZoomInAerialRange(zoom, minZoom, maxZoom)
             wasInRange == isZoomInAerialRange(prevZoom, minZoom, maxZoom)
         IN  IF preferred = "aerial" /\ inRange /\ ~wasInRange
             THEN TRUE
             ELSE IF show THEN FALSE ELSE show

\* The turn-on branch is missing.
zoomChange_neverTurnsOn(url, preferred, show, prevZoom, zoom, minZoom, maxZoom) ==
    IF ~url
    THEN show
    ELSE IF show /\ ~isZoomInAerialRange(zoom, minZoom, maxZoom) THEN FALSE ELSE show

\* The turn-off branch is missing.
zoomChange_neverTurnsOff(url, preferred, show, prevZoom, zoom, minZoom, maxZoom) ==
    IF ~url
    THEN show
    ELSE IF /\ preferred = "aerial"
            /\ isZoomInAerialRange(zoom, minZoom, maxZoom)
            /\ ~isZoomInAerialRange(prevZoom, minZoom, maxZoom)
         THEN TRUE
         ELSE show

\* The early return for a missing aerial source is missing.
zoomChange_ignoresMissingSource(url, preferred, show, prevZoom, zoom, minZoom, maxZoom) ==
    LET inRange == isZoomInAerialRange(zoom, minZoom, maxZoom)
        wasInRange == isZoomInAerialRange(prevZoom, minZoom, maxZoom)
    IN  IF preferred = "aerial" /\ inRange /\ ~wasInRange
        THEN TRUE
        ELSE IF show /\ ~inRange
             THEN FALSE
             ELSE show

\* The turn-on branch forgets the user's preference.
zoomChange_onIgnoresPreference(url, preferred, show, prevZoom, zoom, minZoom, maxZoom) ==
    IF ~url
    THEN show
    ELSE LET inRange == isZoomInAerialRange(zoom, minZoom, maxZoom)
             wasInRange == isZoomInAerialRange(prevZoom, minZoom, maxZoom)
         IN  IF inRange /\ ~wasInRange
             THEN TRUE
             ELSE IF show /\ ~inRange THEN FALSE ELSE show

\* The turn-on branch takes "was out of range" for "was below the range".
zoomChange_onOnlyFromBelow(url, preferred, show, prevZoom, zoom, minZoom, maxZoom) ==
    IF ~url
    THEN show
    ELSE LET inRange == isZoomInAerialRange(zoom, minZoom, maxZoom)
         IN  IF preferred = "aerial" /\ inRange /\ prevZoom < minZoom
             THEN TRUE
             ELSE IF show /\ ~inRange THEN FALSE ELSE show

\* The turn-off branch fires only when the zoom has just left the range.
zoomChange_offOnlyWhenLeaving(url, preferred, show, prevZoom, zoom, minZoom, maxZoom) ==
    IF ~url
    THEN show
    ELSE LET inRange == isZoomInAerialRange(zoom, minZoom, maxZoom)
             wasInRange == isZoomInAerialRange(prevZoom, minZoom, maxZoom)
         IN  IF preferred = "aerial" /\ inRange /\ ~wasInRange
             THEN TRUE
             ELSE IF show /\ wasInRange /\ ~inRange THEN FALSE ELSE show

\* The value of state.showAerialTiles after handleZoomChange(zoom), computed
\* branch by branch as the handler does.
handleZoomChange_showAerialTiles(url, preferred, show, prevZoom, zoom, minZoom, maxZoom) ==
    IF ~url
    THEN show
    ELSE LET inRange == isZoomInAerialRange(zoom, minZoom, maxZoom)
             wasInRange == isZoomInAerialRange(prevZoom, minZoom, maxZoom)
         IN  IF preferred = "aerial" /\ inRange /\ ~wasInRange
             THEN TRUE
             ELSE IF show /\ ~inRange
                  THEN FALSE
                  ELSE show

\* The pre-state snapshot kept in zlast.
BaseSnapshot(op, zoomArg, layerArg, writeOk) ==
    [op |-> op, zoomArg |-> zoomArg, layerArg |-> layerArg, writeOk |-> writeOk,
     thrown |-> FALSE, show |-> showAerialTiles, zoom |-> currentZoom,
     preferred |-> userPreferredLayer, stored |-> storedPreference]

\* MainMap.constructor: the state read from the preference store and the props.
BaseInit ==
    /\ aerialTilesUrl \in BOOLEAN
    /\ \E r \in AerialRanges : aerialMinZoom = r[1] /\ aerialMaxZoom = r[2]
    /\ storedPreference \in BaseLayers
    /\ userPreferredLayer = storedPreference
    /\ showAerialTiles = (storedPreference = "aerial")
    /\ currentZoom \in Zooms
    /\ zlast = [op |-> "constructor", zoomArg |-> 0, layerArg |-> "osm",
                writeOk |-> TRUE, thrown |-> FALSE,
                show |-> showAerialTiles, zoom |-> currentZoom,
                preferred |-> userPreferredLayer, stored |-> storedPreference]

\* The constructor's state in the default configuration: no aerial source, the
\* default range, nothing stored. The specifications of the other concerns
\* start here and leave the switcher alone.
BaseInitDefault ==
    /\ aerialTilesUrl = FALSE
    /\ aerialMinZoom = 0 /\ aerialMaxZoom = 22
    /\ storedPreference = "osm"
    /\ userPreferredLayer = "osm"
    /\ showAerialTiles = FALSE
    /\ currentZoom = 0
    /\ zlast = [op |-> "constructor", zoomArg |-> 0, layerArg |-> "osm",
                writeOk |-> TRUE, thrown |-> FALSE, show |-> FALSE, zoom |-> 0,
                preferred |-> "osm", stored |-> "osm"]

\* MainMap.handleZoomChange(zoom)
HandleZoomChange(zoom) ==
    /\ showAerialTiles' = handleZoomChange_showAerialTiles(
                              aerialTilesUrl, userPreferredLayer, showAerialTiles,
                              currentZoom, zoom, aerialMinZoom, aerialMaxZoom)
    /\ currentZoom' = zoom
    /\ zlast' = BaseSnapshot("handleZoomChange", zoom, "osm", TRUE)
    /\ UNCHANGED <<aerialTilesUrl, aerialMinZoom, aerialMaxZoom,
                   userPreferredLayer, storedPreference>>
    /\ UNCHANGED <<lifeVars, selVars, resVars, styleVars, overlayVars>>
    /\ UNCHANGED <<eventVars, routeVars>>
\* A variant of handleLayerChange that shows aerial only while the zoom is in
\* the aerial range.
HandleLayerChange_rangeGated(layerType, writeOk) ==
    /\ showAerialTiles' = (/\ layerType = "aerial"
                           /\ isZoomInAerialRange(currentZoom, aerialMinZoom, aerialMaxZoom))
    /\ userPreferredLayer' = layerType
    /\ storedPreference' = IF writeOk THEN layerType ELSE storedPreference
    /\ zlast' = BaseSnapshot("handleLayerChange", 0, layerType, writeOk)
    /\ UNCHANGED <<aerialTilesUrl, aerialMinZoom, aerialMaxZoom, currentZoom>>
    /\ UNCHANGED <<lifeVars, selVars, resVars, styleVars, overlayVars>>
    /\ UNCHANGED <<eventVars, routeVars>>
\* A variant of handleLayerChange that awaits the write before it updates the
\* state, so that a failed write leaves the state as it was and the rejection
\* reaches the caller.
HandleLayerChange_writeFirst(layerType, writeOk) ==
    /\ showAerialTiles' = IF writeOk THEN layerType = "aerial" ELSE showAerialTiles
    /\ userPreferredLayer' = IF writeOk THEN layerType ELSE userPreferredLayer
    /\ storedPreference' = IF writeOk THEN layerType ELSE storedPreference
    /\ zlast' = [BaseSnapshot("handleLayerChange", 0, layerType, writeOk)
                   EXCEPT !.thrown = ~writeOk]
    /\ UNCHANGED <<aerialTilesUrl, aerialMinZoom, aerialMaxZoom, currentZoom>>
    /\ UNCHANGED <<lifeVars, selVars, resVars, styleVars, overlayVars>>
    /\ UNCHANGED <<eventVars, routeVars>>
\* MainMap.handleLayerChange(layerType). The state is set first; then
\* Preferences.update sends the new value to the store without being awaited,
\* so a failed write (writeOk false) is a rejected promise nobody in the
\* handler waits for: nothing is thrown into the handler or its caller.
HandleLayerChange(layerType, writeOk) ==
    /\ showAerialTiles' = (layerType = "aerial")
    /\ userPreferredLayer' = layerType
    /\ storedPreference' = IF writeOk THEN layerType ELSE storedPreference
    /\ zlast' = BaseSnapshot("handleLayerChange", 0, layerType, writeOk)
    /\ UNCHANGED <<aerialTilesUrl, aerialMinZoom, aerialMaxZoom, currentZoom>>
    /\ UNCHANGED <<lifeVars, selVars, resVars, styleVars, overlayVars>>
    /\ UNCHANGED <<eventVars, routeVars>>
ZoomChanged == \E zoom \in Zooms : HandleZoomChange(zoom)

LayerChosen == \E layerType \in BaseLayers, writeOk \in BOOLEAN :
                   HandleLayerChange(layerType, writeOk)

BaseNext == ZoomChanged \/ LayerChosen


-----------------------------------------------------------------------------
(* Map style: the handlers, as functions of the state record st =          *)
(* [enabled, mapLayers, customTiles, controls, menu, timers, ran,          *)
(* updateCalled, controlAdded]. ran, updateCalled and controlAdded log     *)
(* what one handler run did: whether onStyleChange got past its guard,     *)
(* whether layerManager.updateEnabledLayers was called and whether a       *)
(* control was added to the map.                                           *)

\* The layers the layer manager knows.
LayerNames == {"transitNodes", "transitPaths", "transitNodesSelected"}

\* The elements of a sequence.
Range(seq) == { seq[k] : k \in 1..Len(seq) }

\* Lists of distinct layer names.
LayerLists ==
    { list \in UNION { [1..n -> LayerNames] : n \in 0..MaxLayers } :
        \A i, j \in DOMAIN list : i # j => list[i] # list[j] }

\* sectionLayers[activeSection] || []
SectionLayerLists ==
    { <<>>, <<"transitNodes", "transitNodesSelected">>, <<"transitPaths">> }

\* MainMap.updateEnabledLayers -> layerManager.updateEnabledLayers(names): the
\* named layers replace the enabled ones, on the map too.
updateEnabledLayers(st, enabledLayersArg) ==
    [st EXCEPT !.enabled = enabledLayersArg,
               !.mapLayers = (@ \ Range(st.enabled)) \cup Range(enabledLayersArg),
               !.updateCalled = TRUE]

\* map.addControl(new MapControlsMenu(...), 'top-right')
addControl(st) ==
    [st EXCEPT !.menu = "attached", !.controls = @ + 1, !.controlAdded = TRUE]

\* this.mapControlsMenu && this.mapControlsMenu.getContainer()?.parentNode !== null
controlStillAttached(st) == st.menu = "attached"

\* A variant of onStyleChange that adds a control on every run.
onStyleChange_alwaysAddsControl(st, hasMap, isStyleLoaded, layers) ==
    IF ~hasMap \/ ~isStyleLoaded THEN st
    ELSE LET s1 == [addControl(st) EXCEPT !.ran = TRUE]
             layersToCheck == IF st.enabled # <<>> THEN st.enabled ELSE layers
         IN  IF layersToCheck # <<>> /\ layersToCheck[1] \in s1.mapLayers
             THEN s1
             ELSE updateEnabledLayers(s1, layersToCheck)

\* A variant of onStyleChange that re-applies the section's configured layers.
onStyleChange_appliesSectionLayers(st, hasMap, isStyleLoaded, layers) ==
    IF ~hasMap \/ ~isStyleLoaded THEN st
    ELSE LET s1 == [(IF controlStillAttached(st) THEN st ELSE addControl(st))
                      EXCEPT !.ran = TRUE]
             layersToCheck == IF st.enabled # <<>> THEN st.enabled ELSE layers
         IN  IF layersToCheck # <<>> /\ layersToCheck[1] \in s1.mapLayers
             THEN s1
             ELSE updateEnabledLayers(s1, layers)

\* A variant of onStyleChange without the early return.
onStyleChange_noShortcut(st, hasMap, isStyleLoaded, layers) ==
    IF ~hasMap \/ ~isStyleLoaded THEN st
    ELSE LET s1 == [(IF controlStillAttached(st) THEN st ELSE addControl(st))
                      EXCEPT !.ran = TRUE]
             layersToCheck == IF st.enabled # <<>> THEN st.enabled ELSE layers
         IN  updateEnabledLayers(s1, layersToCheck)

\* MainMap.onStyleChange; layers is this.state.layers.
onStyleChange(st, hasMap, isStyleLoaded, layers) ==
    IF ~hasMap \/ ~isStyleLoaded THEN st
    ELSE LET s1 == [(IF controlStillAttached(st) THEN st ELSE addControl(st))
                      EXCEPT !.ran = TRUE]
             currentEnabledLayers == st.enabled
             layersToCheck == IF currentEnabledLayers # <<>>
                              THEN currentEnabledLayers ELSE layers
         IN  IF layersToCheck # <<>> /\ layersToCheck[1] \in s1.mapLayers
             THEN s1
             ELSE IF currentEnabledLayers # <<>>
                  THEN updateEnabledLayers(s1, currentEnabledLayers)
                  ELSE updateEnabledLayers(s1, layers)

\* MainMap.getMapStyle(showAerial): the layout visibility the generated style
\* gives the 'aerial' layer.
getMapStyle(showAerial) == IF showAerial THEN "visible" ELSE "none"

\* MapRenderer's effect on [showAerialTiles, mapLoaded]: the visibility of the
\* 'aerial' layer after it, hasLayer being map.getLayer('aerial').
aerialVisibilityEffect(visibility, hasMap, loaded, hasLayer, show) ==
    IF hasMap /\ loaded
    THEN IF hasLayer THEN (IF show THEN "visible" ELSE "none") ELSE visibility
    ELSE visibility

\* MainMap.setMap, the map instance being there: the layers, the control, the
\* deferred onStyleChange and the aerial raster source.
setMap(st, url, layers, isStyleLoaded) ==
    LET s1 == addControl(updateEnabledLayers(st, layers))
        s2 == IF isStyleLoaded THEN [s1 EXCEPT !.timers = @ + 1] ELSE s1
    IN  IF url THEN [s2 EXCEPT !.customTiles = TRUE] ELSE s2

\* MainMap.setupMapEvents, the map instance being there: besides registering
\* the listeners it defers a call of onStyleChange.
setupMapEvents(st, isStyleLoaded) ==
    IF isStyleLoaded THEN [st EXCEPT !.timers = @ + 1] ELSE st

\* The state record at the start of a handler run.
StyleCur ==
    [enabled |-> enabledLayers, mapLayers |-> mapLayers, customTiles |-> customTiles,
     controls |-> controls, menu |-> menu, timers |-> pendingTimers,
     ran |-> FALSE, updateCalled |-> FALSE, controlAdded |-> FALSE]

\* The state after a handler run that ended in record st.
StyleCommit(st, op) ==
    /\ enabledLayers' = st.enabled
    /\ mapLayers' = st.mapLayers
    /\ customTiles' = st.customTiles
    /\ controls' = st.controls
    /\ menu' = st.menu
    /\ pendingTimers' = st.timers
    /\ stlast' = [op |-> op, ran |-> st.ran, updateCalled |-> st.updateCalled,
                  controlAdded |-> st.controlAdded, preMapLayers |-> mapLayers,
                  preEnabled |-> enabledLayers, preMenu |-> menu]
    /\ UNCHANGED <<stateLayers, aerialVisibility, initialShowAerialRef,
                   aerialEffectDeps>>

\* MainMap.constructor: state.layers comes from the section's configuration;
\* there is no map yet.
StyleInit ==
    /\ stateLayers \in SectionLayerLists
    /\ enabledLayers = <<>>
    /\ mapLayers = {}
    /\ customTiles = FALSE
    /\ styleLoaded = FALSE
    /\ controls = 0
    /\ menu = "none"
    /\ pendingTimers = 0
    /\ stlast = [op |-> "constructor", ran |-> FALSE, updateCalled |-> FALSE,
                 controlAdded |-> FALSE, preMapLayers |-> {}, preEnabled |-> <<>>,
                 preMenu |-> "none"]
    /\ aerialVisibility = "none"
    /\ initialShowAerialRef = FALSE
    /\ aerialEffectDeps = <<>>

StyleInitDefault == StyleInit /\ stateLayers = <<>>

-----------------------------------------------------------------------------
(* Deck.gl overlay: MainMap.getDeckLayers as a function of the layer          *)
(* payloads, the zoom and state.mapLoaded, and the event bus's ordered        *)
(* registration. Radii are in thousandths of a pixel.                         *)

\* maxZoom={20} of MapLibreMap: the map's zoom stays in 0..MapMaxZoom.
MapMaxZoom == 20

\* The zoom levels the overlay is computed at: the lowest level, the band
\* boundaries and a level inside a band.
OverlayZooms == { z \in 0..MapMaxZoom : z \in {0, 10, 12, 15, 20} }

\* map?.getZoom() || 15
DefaultOverlayZoom == 15

\* Math.pow(2, k / 10) for k = 0..10, in thousandths.
Pow2Tenths == <<1000, 1072, 1149, 1231, 1320, 1414, 1516, 1625, 1741, 1866, 2000>>

\* Math.pow(2, num / den), the quotient being a multiple of 1/10 in [0, 1].
MathPow2(num, den) == Pow2Tenths[((10 * num) \div den) + 1]

\* radius = 0 + (2 - 0) * Math.pow(2, (zoom - 0) / (10 - 0))
radiusUpTo10(zoom) == 0 + (2 - 0) * MathPow2(zoom - 0, 10 - 0)

\* radius = 2 + (6 - 2) * Math.pow(2, (zoom - 10) / (15 - 10))
radiusUpTo15(zoom) == 2 * 1000 + (6 - 2) * MathPow2(zoom - 10, 15 - 10)

\* radius = 6 + (12 - 6) * Math.pow(2, (zoom - 15) / (20 - 15))
radiusUpTo20(zoom) == 6 * 1000 + (12 - 6) * MathPow2(zoom - 15, 20 - 15)

\* radius = 12 + (zoom - 20) * 2
radiusBeyond20(zoom) == 12 * 1000 + (zoom - 20) * 2 * 1000

\* The radius of the selected-nodes overlay at a zoom level.
getRadius(zoom) ==
    IF zoom <= 10 THEN radiusUpTo10(zoom)
    ELSE IF zoom <= 15 THEN radiusUpTo15(zoom)
    ELSE IF zoom <= 20 THEN radiusUpTo20(zoom)
    ELSE radiusBeyond20(zoom)

\* A colour property is a string, modelled as its sequence of characters; the
\* empty sequence stands for an absent (or empty) property, which is falsy.
Chars(a, b, c, d, e, f, g) == <<a, b, c, d, e, f, g>>

\* The colour properties of the features: absent, the hex colour '#ff8800'
\* and the colour name 'red'.
OverlayColors ==
    { <<>>, Chars("#", "f", "f", "8", "8", "0", "0"), <<"r", "e", "d">> }

\* parseInt's result for a string with no leading digit.
NaN == -1

LowerHexDigits ==
    <<"0", "1", "2", "3", "4", "5", "6", "7", "8", "9", "a", "b", "c", "d", "e", "f">>

UpperHexDigits ==
    <<"0", "1", "2", "3", "4", "5", "6", "7", "8", "9", "A", "B", "C", "D", "E", "F">>

\* The value of a hexadecimal digit, NaN for any other character.
HexValue(ch) ==
    IF \E k \in 1..16 : LowerHexDigits[k] = ch
    THEN (CHOOSE k \in 1..16 : LowerHexDigits[k] = ch) - 1
    ELSE IF \E k \in 1..16 : UpperHexDigits[k] = ch
         THEN (CHOOSE k \in 1..16 : UpperHexDigits[k] = ch) - 1
         ELSE NaN

\* parseInt(chars, 16) continued: acc is the value of the digits read so far,
\* seen whether any was read. Parsing stops at the first non-digit.
RECURSIVE parseDigits(_, _, _)
parseDigits(chars, acc, seen) ==
    IF chars = <<>> \/ HexValue(Head(chars)) = NaN
    THEN IF seen THEN acc ELSE NaN
    ELSE parseDigits(Tail(chars), acc * 16 + HexValue(Head(chars)), TRUE)

\* parseInt(chars, 16)
parseInt16(chars) == parseDigits(chars, 0, FALSE)

\* String.prototype.slice(start, end), 0 <= start <= end.
slice(chars, start, end) ==
    IF start >= Len(chars) THEN <<>>
    ELSE SubSeq(chars, start + 1, IF end < Len(chars) THEN end ELSE Len(chars))

\* const colorHex = feature.properties?.color || default, then the conversion
\* of colorHex to [r, g, b, 255].
hexToRgb(colorHex, defaultHex) ==
    LET chosen == IF colorHex # <<>> THEN colorHex ELSE defaultHex
    IN  << parseInt16(slice(chosen, 1, 3)), parseInt16(slice(chosen, 3, 5)),
           parseInt16(slice(chosen, 5, 7)), 255 >>

\* '#0000ff'
DefaultPathColor == Chars("#", "0", "0", "0", "0", "f", "f")

\* '#0088ff'
DefaultNodeColor == Chars("#", "0", "0", "8", "8", "f", "f")

\* getColor of the selected-paths layer
getColor(feature) == hexToRgb(feature.color, DefaultPathColor)

\* getFillColor of the selected-nodes layer
getFillColor(feature) == hexToRgb(feature.color, DefaultNodeColor)

\* The features of a selected layer's payload: none, or one feature with one
\* of the colour properties.
FeatureLists == { <<>> } \cup { <<[color |-> c]>> : c \in OverlayColors }

OverlayLayerNames == {"transitPathsSelected", "transitNodesSelected"}

\* The payloads of a 'map.updateLayers' event: new features for one or both of
\* the selected layers.
Batches ==
    UNION { [names -> FeatureLists] : names \in (SUBSET OverlayLayerNames) \ {{}} }

\* A variant of getDeckLayers without the mapLoaded guard.
getDeckLayers_beforeLoad(loaded, data, zoom) ==
    LET paths == data["transitPathsSelected"]
        nodes == data["transitNodesSelected"]
    IN  (IF paths # <<>>
         THEN << [id |-> "selected-paths-animated", data |-> paths,
                  colors |-> [k \in 1..Len(paths) |-> getColor(paths[k])],
                  size |-> 12 * 1000] >>
         ELSE <<>>)
        \o (IF nodes # <<>>
            THEN << [id |-> "selected-nodes-spinner", data |-> nodes,
                     colors |-> [k \in 1..Len(nodes) |-> getFillColor(nodes[k])],
                     size |-> getRadius(IF zoom # 0 THEN zoom ELSE DefaultOverlayZoom)] >>
            ELSE <<>>)

\* MainMap.getDeckLayers: loaded is this.state.mapLoaded, data the layer
\* manager's payloads, zoom is map.getZoom(). A layer is [id, data, colors,
\* size]: colors the accessor's result for each feature, size the width or
\* radius.
getDeckLayers(loaded, data, zoom) ==
    IF ~loaded THEN <<>>
    ELSE LET paths == data["transitPathsSelected"]
             nodes == data["transitNodesSelected"]
         IN  (IF paths # <<>>
              THEN << [id |-> "selected-paths-animated", data |-> paths,
                       colors |-> [k \in 1..Len(paths) |-> getColor(paths[k])],
                       size |-> 12 * 1000] >>
              ELSE <<>>)
             \o (IF nodes # <<>>
                 THEN << [id |-> "selected-nodes-spinner", data |-> nodes,
                          colors |-> [k \in 1..Len(nodes) |-> getFillColor(nodes[k])],
                          size |-> getRadius(IF zoom # 0 THEN zoom
                                             ELSE DefaultOverlayZoom)] >>
                 ELSE <<>>)

\* MapRenderer's updateDeckLayers: the value it hands to setDeckLayers.
\* propLoaded is the mapLoaded prop its closure captured.
updateDeckLayers(propLoaded, loaded, data, zoom) ==
    IF ~propLoaded THEN <<>> ELSE getDeckLayers(loaded, data, zoom)

\* MainMap.updateLayers -> layerManager.updateLayers(geojsonByLayerName): every
\* layer named in the batch gets its new payload.
updateLayers(data, batch) ==
    [l \in DOMAIN data |-> IF l \in DOMAIN batch THEN batch[l] ELSE data[l]]

\* A variant of eventManager.on that puts the new handler first.
on_prepending(handlers, handler) == <<handler>> \o handlers

\* eventManager.on(event, handler): the handler is added after the ones
\* already registered for the event.
on(handlers, handler) == Append(handlers, handler)

\* eventManager.off(event, handler)
off(handlers, handler) == SelectSeq(handlers, LAMBDA h : h # handler)

\* eventManager.emit('map.updateLayers', batch): the handlers run one after
\* the other in registration order. o = [data, deck, read, propLoaded, loaded,
\* zoom]; read logs the payloads updateDeckLayers found in the layer manager.
RECURSIVE emitToHandlers(_, _, _)
emitToHandlers(handlers, o, batch) ==
    IF handlers = <<>> THEN o
    ELSE LET o1 == IF Head(handlers) = "updateLayers"
                   THEN [o EXCEPT !.data = updateLayers(@, batch)]
                   ELSE [o EXCEPT !.deck = updateDeckLayers(o.propLoaded, o.loaded,
                                                            o.data, o.zoom),
                                  !.read = Append(@, o.data)]
         IN  emitToHandlers(Tail(handlers), o1, batch)

NoBatch == [l \in OverlayLayerNames |-> <<>>]

\* The overlay history kept in olast.
OverlaySnapshot(op, batch, read) ==
    [op |-> op, order |-> busOrder, batch |-> batch, read |-> read,
     propLoaded |-> rendererMapLoaded, phase |-> phase]

\* MainMap.constructor and MapRenderer's initial state: no payload, nothing
\* registered, no deck layers.
OverlayInit ==
    /\ layerData = [l \in OverlayLayerNames |-> <<>>]
    /\ mapZoom \in OverlayZooms
    /\ busOrder = <<>>
    /\ rendererMapLoaded = FALSE
    /\ effectDue = FALSE
    /\ resubscribed = FALSE
    /\ deckLayers = <<>>
    /\ olast = [op |-> "constructor", order |-> <<>>, batch |-> NoBatch,
                read |-> <<>>, propLoaded |-> FALSE, phase |-> "constructed"]

OverlayInitDefault == OverlayInit /\ mapZoom = 0

-----------------------------------------------------------------------------
(* Lifecycle: event-bus subscriptions, map load and map error *)

\* The (event name, handler) pairs componentDidMount registers with
\* serviceLocator.eventManager.on / onEvent.
DidMountRegistrations ==
    { <<"map.updateEnabledLayers", "updateEnabledLayers">>,
      <<"map.updateLayer", "updateLayer">>,
      <<"map.updateLayers", "updateLayers">>,
      <<"map.addPopup", "addPopup">>,
      <<"map.removePopup", "removePopup">>,
      <<"map.updateFilter", "updateFilter">>,
      <<"map.clearFilter", "clearFilter">>,
      <<"map.showLayer", "showLayer">>,
      <<"map.hideLayer", "hideLayer">>,
      <<"map.paths.byAttribute.show", "showPathsByAttribute">>,
      <<"map.paths.byAttribute.hide", "hidePathsByAttribute">>,
      <<"map.paths.clearFilter", "clearPathsFilter">>,
      <<"map.fitBounds", "fitBounds">>,
      <<"map.setCenter", "setCenter">>,
      <<"map.enableBoxZoom", "onEnableBoxZoom">>,
      <<"map.disableBoxZoom", "onDisableBoxZoom">>,
      <<"map.enableDragPan", "onEnableDragPan">>,
      <<"map.disableDragPan", "onDisableDragPan">>,
      <<"map.showContextMenu", "showContextMenu">>,
      <<"map.hideContextMenu", "hideContextMenu">>,
      <<"map.handleDrawControl", "handleDrawControl">>,
      <<"map.deleteSelectedNodes", "deleteSelectedNodes">>,
      <<"map.deleteSelectedPolygon", "deleteSelectedPolygon">>,
      <<"collection.update.nodes", "onNodesUpdated">> }

\* The pairs componentWillUnmount hands to serviceLocator.eventManager.off.
WillUnmountRemovals ==
    { <<"map.updateEnabledLayers", "updateEnabledLayers">>,
      <<"map.updateLayer", "updateLayer">>,
      <<"map.updateLayers", "updateLayers">>,
      <<"map.addPopup", "addPopup">>,
      <<"map.removePopup", "removePopup">>,
      <<"map.updateFilter", "updateFilter">>,
      <<"map.clearFilter", "clearFilter">>,
      <<"map.showLayer", "showLayer">>,
      <<"map.hideLayer", "hideLayer">>,
      <<"map.paths.byAttribute.show", "showPathsByAttribute">>,
      <<"map.paths.byAttribute.hide", "hidePathsByAttribute">>,
      <<"map.paths.clearFilter", "clearPathsFilter">>,
      <<"map.fitBounds", "fitBounds">>,
      <<"map.setCenter", "setCenter">>,
      <<"map.enableBoxZoom", "onEnableBoxZoom">>,
      <<"map.disableBoxZoom", "onDisableBoxZoom">>,
      <<"map.enableDragPan", "onEnableDragPan">>,
      <<"map.disableDragPan", "onDisableDragPan">>,
      <<"map.showContextMenu", "showContextMenu">>,
      <<"map.hideContextMenu", "hideContextMenu">>,
      <<"map.handleDrawControl", "handleDrawControl">>,
      <<"map.deleteSelectedNodes", "deleteSelectedNodes">>,
      <<"map.deleteSelectedPolygon", "deleteSelectedPolygon">> }

\* The event names of the bus this component listens to.
BusEvents == { r[1] : r \in DidMountRegistrations }

\* EventManager.emit(event): the handlers the bus invokes.
Delivered(event) == { r[2] : r \in { q \in subscribed : q[1] = event } }

\* The listeners setupMapEvents registers on the map instance besides the
\* per-event handlers of this.mapEvents.
SetupMapEventsListeners == {"error", "style.load", "styledata"}

LifeSnapshot(op, event) ==
    [op |-> op, event |-> event, delivered |-> Delivered(event),
     mapLoaded |-> mapLoaded, pendingMapLoaded |-> pendingMapLoaded,
     loadedEmitted |-> loadedEmitted, loadFired |-> loadFired,
     errorHandled |-> "error" \in nativeListeners,
     trace |-> <<>>, offThrew |-> FALSE, thrown |-> FALSE, logged |-> FALSE]

\* MainMap.constructor: nothing is registered and the map is not loaded.
LifeInit ==
    /\ phase = "constructed"
    /\ subscribed = {}
    /\ services = {}
    /\ nativeListeners = {}
    /\ resizeListener = FALSE
    /\ loadFired = FALSE
    /\ mapLoaded = FALSE
    /\ pendingMapLoaded = FALSE
    /\ loadedEmitted = 0
    /\ mapErrors = 0
    /\ llast = [op |-> "constructor", event |-> "none", delivered |-> {},
                mapLoaded |-> FALSE, pendingMapLoaded |-> FALSE,
                loadedEmitted |-> 0, loadFired |-> FALSE, errorHandled |-> FALSE,
                trace |-> <<>>, offThrew |-> FALSE, thrown |-> FALSE, logged |-> FALSE]

\* MainMap.componentDidMount. MapRenderer is mounted in the same commit; its
\* effects run after componentDidMount has returned.
ComponentDidMount ==
    /\ phase = "constructed"
    /\ phase' = "mounted"
    /\ services' = services \cup {"layerManager", "pathLayerManager"}
    /\ subscribed' = subscribed \cup DidMountRegistrations
    /\ llast' = LifeSnapshot("componentDidMount", "none")
    /\ busOrder' = on(busOrder, "updateLayers")
    /\ effectDue' = TRUE
    /\ UNCHANGED <<nativeListeners, resizeListener, loadFired, mapLoaded,
                   pendingMapLoaded, loadedEmitted, mapErrors>>
    /\ initialShowAerialRef' = showAerialTiles
    /\ aerialVisibility' = IF aerialTilesUrl THEN getMapStyle(showAerialTiles)
                                              ELSE aerialVisibility
    /\ UNCHANGED <<layerData, mapZoom, rendererMapLoaded, resubscribed,
                   deckLayers, olast>>
    /\ UNCHANGED <<stateLayers, enabledLayers, mapLayers, customTiles, styleLoaded,
                   controls, menu, pendingTimers, stlast, aerialEffectDeps>>
    /\ UNCHANGED <<baseVars, selVars, resVars>>
    /\ UNCHANGED <<eventVars, routeVars>>
\* componentWillUnmount as a function of the record u = [subscribed, services,
\* native, resize, trace, thrown, logged]: trace lists the calls made, thrown
\* is whether an exception left the handler, logged whether one was logged.
\* offThrows is whether map.off throws.
\* A variant without the try / catch around map.off.
componentWillUnmount_uncaught(u, hasMap, offThrows) ==
    LET u1 == [u EXCEPT !.services = @ \ {"layerManager", "pathLayerManager"},
                        !.subscribed = @ \ WillUnmountRemovals,
                        !.trace = Append(@, "eventManager.off")]
        u2 == IF ~hasMap THEN u1
              ELSE IF offThrows
                   THEN [u1 EXCEPT !.thrown = TRUE, !.trace = Append(@, "map.off")]
                   ELSE [u1 EXCEPT !.native = @ \ {"style.load"},
                                   !.trace = Append(@, "map.off")]
    IN  IF u2.thrown THEN u2
        ELSE IF u2.resize
             THEN [u2 EXCEPT !.resize = FALSE,
                             !.trace = Append(@, "removeResizeListener")]
             ELSE u2

\* MainMap.componentWillUnmount
componentWillUnmount(u, hasMap, offThrows) ==
    LET u1 == [u EXCEPT !.services = @ \ {"layerManager", "pathLayerManager"},
                        !.subscribed = @ \ WillUnmountRemovals,
                        !.trace = Append(@, "eventManager.off")]
        u2 == IF ~hasMap THEN u1
              ELSE IF offThrows
                   THEN [u1 EXCEPT !.logged = TRUE, !.trace = Append(@, "map.off")]
                   ELSE [u1 EXCEPT !.native = @ \ {"style.load"},
                                   !.trace = Append(@, "map.off")]
    IN  IF u2.resize
        THEN [u2 EXCEPT !.resize = FALSE, !.trace = Append(@, "removeResizeListener")]
        ELSE u2

\* react-map-gl's map.remove(): the listeners left on the instance go with it.
mapRemove(u) == [u EXCEPT !.native = {}, !.trace = Append(@, "map.remove")]

\* MainMap.componentWillUnmount, then react-map-gl's removal of the map
\* instance and React's discarding of the state updates still queued for the
\* component. this.mapContainer is an element once setMap has bound the resize
\* listener to it. Whether map.off throws is the map library's choice.
ComponentWillUnmount ==
    \E offThrows \in BOOLEAN :
        LET u == mapRemove(componentWillUnmount(
                     [subscribed |-> subscribed, services |-> services,
                      native |-> nativeListeners, resize |-> resizeListener,
                      trace |-> <<>>, thrown |-> FALSE, logged |-> FALSE],
                     phase = "mounted", offThrows))
        IN  /\ phase = "mounted"
            /\ phase' = "unmounted"
            /\ services' = u.services
            /\ subscribed' = u.subscribed
            /\ nativeListeners' = u.native
            /\ resizeListener' = u.resize
            /\ pendingMapLoaded' = FALSE
            /\ llast' = [LifeSnapshot("componentWillUnmount", "none") EXCEPT
                           !.trace = u.trace, !.offThrew = offThrows,
                           !.thrown = u.thrown, !.logged = u.logged]
            /\ busOrder' = off(busOrder, "updateLayers")
            /\ effectDue' = FALSE
            /\ UNCHANGED <<loadFired, mapLoaded, loadedEmitted, mapErrors>>
            /\ UNCHANGED <<layerData, mapZoom, rendererMapLoaded, resubscribed,
                           deckLayers, olast>>
            /\ UNCHANGED <<baseVars, selVars, resVars, styleVars>>
            /\ UNCHANGED <<eventVars, routeVars>>
\* MapRenderer's onLoad callback: setMap() then setupMapEvents(). The map
\* instance exists, so neither returns early, and its style has loaded. setMap
\* binds the resize listener, enables the section's layers, adds the
\* layer-switch control and the aerial raster source, queues mapLoaded: true
\* and emits 'map.loaded'; setupMapEvents registers the native listeners, among
\* them 'error' -> onMapError. Both defer a call of onStyleChange.
OnLoad ==
    /\ phase = "mounted"
    /\ ~loadFired
    /\ loadFired' = TRUE
    /\ resizeListener' = TRUE
    /\ pendingMapLoaded' = TRUE
    /\ loadedEmitted' = loadedEmitted + 1
    /\ nativeListeners' = nativeListeners \cup SetupMapEventsListeners
    /\ llast' = LifeSnapshot("onLoad", "map.loaded")
    /\ StyleCommit(setupMapEvents(setMap(StyleCur, aerialTilesUrl, stateLayers, TRUE),
                                  TRUE), "onLoad")
    /\ styleLoaded' = TRUE
    /\ UNCHANGED <<phase, subscribed, services, mapLoaded, mapErrors>>
    /\ UNCHANGED <<baseVars, selVars, resVars, overlayVars>>
    /\ UNCHANGED <<eventVars, routeVars>>
\* React applies the queued setState({mapLoaded: true}) and renders; a changed
\* mapLoaded prop makes MapRenderer's deck-layers effect due.
ApplyStateUpdate ==
    /\ phase = "mounted"
    /\ pendingMapLoaded
    /\ mapLoaded' = TRUE
    /\ pendingMapLoaded' = FALSE
    /\ llast' = LifeSnapshot("setState", "none")
    /\ effectDue' = (effectDue \/ ~mapLoaded)
    /\ UNCHANGED <<phase, subscribed, services, nativeListeners, resizeListener,
                   loadFired, loadedEmitted, mapErrors>>
    /\ UNCHANGED <<layerData, mapZoom, busOrder, rendererMapLoaded, resubscribed,
                   deckLayers, olast>>
    /\ UNCHANGED <<baseVars, selVars, resVars, styleVars>>
    /\ UNCHANGED <<eventVars, routeVars>>
\* The map instance fires a native 'error' event. It reaches MainMap.onMapError
\* only if the 'error' listener has been registered; onMapError marks the
\* session loaded and emits 'map.loaded' when state.mapLoaded is false.
NativeMapError ==
    /\ phase = "mounted"
    /\ mapErrors < MaxMapErrors
    /\ mapErrors' = mapErrors + 1
    /\ IF "error" \in nativeListeners /\ ~mapLoaded
       THEN /\ pendingMapLoaded' = TRUE
            /\ loadedEmitted' = loadedEmitted + 1
       ELSE UNCHANGED <<pendingMapLoaded, loadedEmitted>>
    /\ llast' = LifeSnapshot("mapError", "none")
    /\ UNCHANGED <<phase, subscribed, services, nativeListeners, resizeListener,
                   loadFired, mapLoaded>>
    /\ UNCHANGED <<baseVars, selVars, resVars, styleVars, overlayVars>>
    /\ UNCHANGED <<eventVars, routeVars>>
\* Some part of the application emits a bus event this component listens to;
\* the step records the handlers the bus invokes.
BusEmit ==
    \E event \in BusEvents :
        /\ phase # "constructed"
        /\ llast' = LifeSnapshot("emit", event)
        /\ UNCHANGED <<phase, subscribed, services, nativeListeners, resizeListener,
                       loadFired, mapLoaded, pendingMapLoaded, loadedEmitted, mapErrors>>
        /\ UNCHANGED <<baseVars, selVars, resVars, styleVars, overlayVars>>
        /\ UNCHANGED <<eventVars, routeVars>>
LifeNext ==
    \/ ComponentDidMount
    \/ ComponentWillUnmount
    \/ OnLoad
    \/ ApplyStateUpdate
    \/ NativeMapError
    \/ BusEmit

-----------------------------------------------------------------------------
(* Draw tool and selection: data *)

Nodes == 1..MaxNodes

\* The nodes whose is_frozen attribute is true: the even-numbered ones.
FrozenNodes == { i \in Nodes : i % 2 = 0 }

\* The GeoJSON feature of node i. An id of 0 stands for a missing id.
NodeFeature(i) == [id |-> i, pos |-> i, is_frozen |-> (i \in FrozenNodes)]

\* Ascending sequence of a finite set of integers.
RECURSIVE SortedSeq(_)
SortedSeq(S) ==
    IF S = {} THEN <<>>
    ELSE LET m == CHOOSE x \in S : \A y \in S : x <= y
         IN  <<m>> \o SortedSeq(S \ {m})

\* collectionManager.get('nodes').getFeatures() / toGeojson(): the features of
\* the nodes present, in collection order.
CollectionFeatures(present) ==
    LET order == SortedSeq(present)
    IN  [k \in 1..Len(order) |-> NodeFeature(order[k])]

NoPolygon == [type |-> "none", parts |-> <<>>]

\* A polygon is the set of map positions it covers; a MultiPolygon lists the
\* polygons of its coordinate array; a FeatureCollection lists features whose
\* geometry is one or the other.
Polygon(area) == [type |-> "Polygon", parts |-> <<area>>]
MultiPolygon(areas) == [type |-> "MultiPolygon", parts |-> areas]
FeatureCollection(features) == [type |-> "FeatureCollection", parts |-> features]

\* The polygons the user draws in a session: the simple polygons covering the
\* first k node positions (none for k = 0), and a MultiPolygon of two
\* overlapping polygons.
DrawablePolygons ==
    { Polygon(1..k) : k \in 0..MaxNodes } \cup { MultiPolygon(<<{1}, Nodes>>) }

Sections == {"nodes", "agencies"}

SelectionKeys == {"nodes", "isContainSelectedFrozenNodes", "isDrawPolygon"}

\* The layers cleared together with the polygon selection.
SelectionOverlayLayers ==
    {"transitNodesSelected", "transitNodes250mRadius", "transitNodes500mRadius",
     "transitNodes750mRadius", "transitNodes1000mRadius", "transitNodesRoutingRadius"}

\* turfFeatureCollection([])
EmptyCollection == <<>>

-----------------------------------------------------------------------------
(* Draw tool and selection: the handlers, as functions of the state record c  *)
(* = [sel, poly, draw, tools, toolPolygon, collection, emitted, progress,     *)
(* resolved, refreshed, rejected, outcome]. emitted, progress, resolved and   *)
(* refreshed log what one handler run did: the 'map.updateLayers' batches and *)
(* 'progress' events it emitted, how many selection resolutions it ran and    *)
(* whether it refreshed the nodes collection. rejected is the state of the    *)
(* promise a reaction receives and passes on, outcome how the request behind  *)
(* the reaction settled. The layer registry that receives the batches is      *)
(* outside the model.                                                         *)

\* selectedObjectsManager.setSelection(key, items): replaces the key's value.
setSelection(c, key, items) == [c EXCEPT !.sel[key] = items]

\* selectedObjectsManager.deselect(key): getSelection(key) is empty afterwards.
deselect(c, key) == [c EXCEPT !.sel[key] = <<>>]

\* serviceLocator.eventManager.emit('map.updateLayers', batch)
emitUpdateLayers(c, batch, subs) == [c EXCEPT !.emitted = Append(@, batch)]

\* serviceLocator.eventManager.emit('progress', {name: 'DeletingNodes', progress})
emitProgress(c, progress) == [c EXCEPT !.progress = Append(@, progress)]

\* findOverlappingFeatures(polygon, features): the features inside the polygon,
\* in the order of features.
findOverlappingFeatures(area, features) ==
    SelectSeq(features, LAMBDA f : f.pos \in area)

HasId(nodes, id) == \E k \in 1..Len(nodes) : nodes[k].id = id

\* A variant of processPolygon's forEach that adds every node it is given.
addOverlapping_noIdCheck(map, nodes) == map \o nodes

\* processPolygon's forEach: add each node with an id not yet in the map.
RECURSIVE addOverlapping(_, _)
addOverlapping(map, nodes) ==
    IF nodes = <<>> THEN map
    ELSE LET node == Head(nodes)
         IN  addOverlapping(IF node.id # 0 /\ ~HasId(map, node.id)
                            THEN Append(map, node) ELSE map,
                            Tail(nodes))

\* processPolygon(poly) of handleDrawPolygonService.
processPolygon(map, area, allNodes) ==
    addOverlapping(map, findOverlappingFeatures(area, allNodes))

\* coordinates.forEach((coords) => processPolygon(turf.polygon(coords)))
RECURSIVE processCoordinates(_, _, _)
processCoordinates(map, areas, allNodes) ==
    IF areas = <<>> THEN map
    ELSE processCoordinates(processPolygon(map, Head(areas), allNodes),
                            Tail(areas), allNodes)

\* features.forEach of the FeatureCollection branch.
RECURSIVE processFeatures(_, _, _)
processFeatures(map, features, allNodes) ==
    IF features = <<>> THEN map
    ELSE LET feature == Head(features)
             next == IF feature.type = "Polygon"
                     THEN processPolygon(map, feature.parts[1], allNodes)
                     ELSE IF feature.type = "MultiPolygon"
                          THEN processCoordinates(map, feature.parts, allNodes)
                          ELSE map
         IN  processFeatures(next, Tail(features), allNodes)

\* The nodes handleDrawPolygonService matches, before the frozen filter.
overlappingNodes(polygonOrCollection, allNodes) ==
    IF polygonOrCollection.type = "FeatureCollection"
    THEN processFeatures(<<>>, polygonOrCollection.parts, allNodes)
    ELSE IF polygonOrCollection.type = "MultiPolygon"
         THEN processCoordinates(<<>>, polygonOrCollection.parts, allNodes)
         ELSE findOverlappingFeatures(polygonOrCollection.parts[1], allNodes)

\* Node.wasFrozen() of a node just built from the feature's properties.
wasFrozen(node) == node.is_frozen

\* A variant of the frozen filter that keeps every node.
filterFrozen_keepsAll(nodes) == nodes

\* The frozen filter of handleDrawPolygonService.
filterFrozen(nodes) ==
    SelectSeq(nodes, LAMBDA node : node.is_frozen = FALSE /\ ~wasFrozen(node))

\* A variant of the resolution that adds the matched nodes to the nodes
\* selection already held.
selectNodesInPolygon_merging(c, polygonOrCollection, allNodes, subs) ==
    LET selectedNodes == filterFrozen(overlappingNodes(polygonOrCollection, allNodes))
        c1 == [c EXCEPT !.poly = polygonOrCollection, !.resolved = @ + 1]
        c2 == emitUpdateLayers(c1, [transitNodesSelected |-> selectedNodes], subs)
        c3 == setSelection(c2, "nodes", c.sel["nodes"] \o selectedNodes)
        c4 == setSelection(c3, "isContainSelectedFrozenNodes", <<FALSE>>)
    IN  setSelection(c4, "isDrawPolygon", <<TRUE>>)

\* The body of handleDrawPolygonService in the nodes section, allNodes being
\* the features of the nodes collection.
selectNodesInPolygon(c, polygonOrCollection, allNodes, subs) ==
    LET selectedNodes == filterFrozen(overlappingNodes(polygonOrCollection, allNodes))
        c1 == [c EXCEPT !.poly = polygonOrCollection, !.resolved = @ + 1]
        c2 == emitUpdateLayers(c1, [transitNodesSelected |-> selectedNodes], subs)
        c3 == setSelection(c2, "nodes", selectedNodes)
        c4 == setSelection(c3, "isContainSelectedFrozenNodes", <<FALSE>>)
    IN  setSelection(c4, "isDrawPolygon", <<TRUE>>)

\* MainMap.handleDrawPolygonService(polygonOrCollection)
handleDrawPolygonService(c, polygonOrCollection, section, subs) ==
    IF section # "nodes" THEN c
    ELSE selectNodesInPolygon(c, polygonOrCollection,
                              CollectionFeatures(c.collection), subs)

\* A variant of clearPolygonSelection that resets the nodes selection and its
\* layer only.
clearPolygonSelection_nodesOnly(c, subs) ==
    LET c1 == [c EXCEPT !.poly = NoPolygon]
        c2 == deselect(c1, "nodes")
    IN  emitUpdateLayers(c2, [transitNodesSelected |-> EmptyCollection], subs)

\* MainMap.clearPolygonSelection
clearPolygonSelection(c, subs) ==
    LET c1 == [c EXCEPT !.poly = NoPolygon]
        c2 == deselect(c1, "nodes")
        c3 == deselect(c2, "isContainSelectedFrozenNodes")
        c4 == deselect(c3, "isDrawPolygon")
    IN  emitUpdateLayers(c4, [l \in SelectionOverlayLayers |-> EmptyCollection], subs)

\* draw.deleteAll(): the tool drops its polygon and, if it held one, calls the
\* delete callback given to getTerraDraw, which is clearPolygonSelection.
drawDeleteAll(c, subs) ==
    IF c.toolPolygon # NoPolygon
    THEN clearPolygonSelection([c EXCEPT !.toolPolygon = NoPolygon], subs)
    ELSE c

\* draw.reset(): the tool goes back to its idle state.
drawReset(c) == [c EXCEPT !.toolPolygon = NoPolygon]

\* MainMap.deleteSelectedPolygon
deleteSelectedPolygon(c, subs) ==
    LET c1 == IF c.draw THEN drawReset(drawDeleteAll(c, subs)) ELSE c
    IN  clearPolygonSelection(c1, subs)

\* MainMap.onNodesUpdated
onNodesUpdated(c, section, subs) ==
    IF c.poly # NoPolygon /\ c.draw
    THEN handleDrawPolygonService(c, c.poly, section, subs)
    ELSE c

\* MainMap.setDrawPolygonService: getTerraDraw attaches a tool to the map.
setDrawPolygonService(c, hasMap) ==
    IF ~hasMap THEN c
    ELSE [c EXCEPT !.draw = TRUE, !.tools = @ + 1, !.toolPolygon = NoPolygon]

\* removeTerraDraw(map, draw): the tool is stopped and taken off the map.
removeTerraDraw(c) == [c EXCEPT !.tools = @ - 1, !.toolPolygon = NoPolygon]

\* A variant of handleDrawControl that attaches a tool whenever the section is
\* 'nodes'.
handleDrawControl_alwaysAttaches(c, section, hasMap, subs) ==
    IF ~hasMap THEN c
    ELSE IF section = "nodes"
         THEN setDrawPolygonService(c, hasMap)
         ELSE IF c.draw
              THEN [removeTerraDraw(deleteSelectedPolygon(c, subs)) EXCEPT !.draw = FALSE]
              ELSE c

\* A variant of handleDrawControl that removes the tool without clearing the
\* polygon selection.
handleDrawControl_noCleanup(c, section, hasMap, subs) ==
    IF ~hasMap THEN c
    ELSE IF section = "nodes" /\ ~c.draw
         THEN setDrawPolygonService(c, hasMap)
         ELSE IF section # "nodes" /\ c.draw
              THEN [removeTerraDraw(c) EXCEPT !.draw = FALSE]
              ELSE c

\* MainMap.handleDrawControl(section)
handleDrawControl(c, section, hasMap, subs) ==
    IF ~hasMap THEN c
    ELSE IF section = "nodes" /\ ~c.draw
         THEN setDrawPolygonService(c, hasMap)
         ELSE IF section # "nodes" /\ c.draw
              THEN [removeTerraDraw(deleteSelectedPolygon(c, subs)) EXCEPT !.draw = FALSE]
              ELSE c

\* The modes the draw tool reports to its mode-change callback.
ToolModes == {"draw_polygon", "polygon", "select", "simple_select", "static"}

\* A selection entry that is not an object: the JavaScript primitive true or
\* false. Entities (nodes, features) are records with an id.
Primitive(value) == [primitive |-> value]

Undefined == Primitive("undefined")

\* typeof item === 'object'
IsObject(item) == "id" \in DOMAIN item

\* JavaScript truthiness of a selection entry.
Truthy(item) == IsObject(item) \/ item.primitive = "true"

\* selectedObjectsManager.getSingleSelection(key): first item or undefined.
getSingleSelection(c, key) ==
    IF c.sel[key] = <<>> THEN Undefined ELSE c.sel[key][1]

\* A variant of modeChangePolygonService whose drawing branch also drops the
\* nodes selection.
modeChangePolygonService_drawingDeselects(c, mode) ==
    IF mode \in {"draw_polygon", "polygon", "select"}
    THEN deselect(setSelection(c, "isDrawPolygon", <<TRUE>>), "nodes")
    ELSE LET c1 == deselect(c, "isDrawPolygon")
             selectedNodes == getSingleSelection(c1, "nodes")
         IN  IF /\ Truthy(selectedNodes) /\ ~IsObject(selectedNodes)
                /\ mode = "simple_select"
             THEN deselect(c1, "nodes")
             ELSE c1

\* A variant of modeChangePolygonService that drops the nodes selection
\* whenever the tool leaves drawing.
modeChangePolygonService_alwaysCleans(c, mode) ==
    IF mode \in {"draw_polygon", "polygon", "select"}
    THEN setSelection(c, "isDrawPolygon", <<TRUE>>)
    ELSE deselect(deselect(c, "isDrawPolygon"), "nodes")

\* MainMap.modeChangePolygonService(data), data.mode being the tool's new mode.
modeChangePolygonService(c, mode) ==
    IF mode \in {"draw_polygon", "polygon", "select"}
    THEN setSelection(c, "isDrawPolygon", <<TRUE>>)
    ELSE LET c1 == deselect(c, "isDrawPolygon")
             selectedNodes == getSingleSelection(c1, "nodes")
         IN  IF /\ Truthy(selectedNodes) /\ ~IsObject(selectedNodes)
                /\ mode = "simple_select"
             THEN deselect(c1, "nodes")
             ELSE c1

-----------------------------------------------------------------------------
(* Draw tool and selection: the steps *)

\* this.mapRef.current?.getMap(): the map exists while the component is mounted.
HasMap == phase = "mounted"

\* The state record at the start of a handler run.
Cur ==
    [sel |-> selection, poly |-> currentSelectionPolygon, draw |-> draw,
     tools |-> attachedTools,
     toolPolygon |-> toolPolygon, collection |-> nodesCollection, emitted |-> <<>>, progress |-> <<>>,
     resolved |-> 0, refreshed |-> FALSE, rejected |-> FALSE, outcome |-> "none"]

\* The state after a handler run that ended in record c.
Commit(c, op, arg) ==
    /\ selection' = c.sel
    /\ currentSelectionPolygon' = c.poly
    /\ draw' = c.draw
    /\ attachedTools' = c.tools
    /\ toolPolygon' = c.toolPolygon
    /\ nodesCollection' = c.collection
    /\ slast' = [op |-> op, arg |-> arg, preDraw |-> draw, hadMap |-> HasMap,
                 preSelected |-> selection["nodes"] # <<>>,
                 emitted |-> c.emitted, progress |-> c.progress,
                 resolved |-> c.resolved, refreshed |-> c.refreshed,
                 propagated |-> c.rejected, outcome |-> c.outcome]

IsSubscribed(event, handler) == <<event, handler>> \in subscribed

\* Promise reactions run before any other event: while a settled request still
\* has its finally reaction queued, nothing else happens.
NoQueuedReaction == \A k \in 1..Len(requests) : requests[k].stage = "pending"

SelInit ==
    /\ activeSection \in Sections
    /\ draw = FALSE
    /\ attachedTools = 0
    /\ toolPolygon = NoPolygon
    /\ currentSelectionPolygon = NoPolygon
    /\ selection = [k \in SelectionKeys |-> <<>>]
    /\ nodesCollection = Nodes
    /\ requests = <<>>
    /\ confirmModalDeleteIsOpen = FALSE
    /\ slast = [op |-> "constructor", arg |-> "none", preDraw |-> FALSE,
                hadMap |-> FALSE, preSelected |-> FALSE,
                emitted |-> <<>>, progress |-> <<>>, resolved |-> 0,
                refreshed |-> FALSE, propagated |-> FALSE, outcome |-> "none"]

\* The constructor's state with the section fixed, where the specifications of
\* the other concerns start.
SelInitDefault == SelInit /\ activeSection = "nodes"

\* The section shown changes (props.activeSection).
SectionChanged ==
    \E section \in Sections :
        /\ NoQueuedReaction
        /\ phase = "mounted"
        /\ section # activeSection
        /\ activeSection' = section
        /\ slast' = [slast EXCEPT !.op = "sectionChanged", !.arg = section,
                                  !.emitted = <<>>, !.progress = <<>>, !.resolved = 0]
        /\ UNCHANGED <<draw, attachedTools, toolPolygon, currentSelectionPolygon,
                       selection, nodesCollection, requests,
                       confirmModalDeleteIsOpen>>
        /\ UNCHANGED <<baseVars, lifeVars, resVars, styleVars, overlayVars>>
        /\ UNCHANGED <<eventVars, routeVars>>
\* 'map.handleDrawControl' is emitted with a section name.
HandleDrawControl ==
    \E section \in Sections :
        /\ NoQueuedReaction
        /\ IsSubscribed("map.handleDrawControl", "handleDrawControl")
        /\ Commit(handleDrawControl(Cur, section, HasMap, subscribed),
                  "handleDrawControl", section)
        /\ UNCHANGED <<activeSection, requests, confirmModalDeleteIsOpen>>
        /\ UNCHANGED <<baseVars, lifeVars, resVars, styleVars, overlayVars>>
        /\ UNCHANGED <<eventVars, routeVars>>
\* 'map.deleteSelectedPolygon' is emitted.
DeleteSelectedPolygon ==
    /\ NoQueuedReaction
    /\ IsSubscribed("map.deleteSelectedPolygon", "deleteSelectedPolygon")
    /\ Commit(deleteSelectedPolygon(Cur, subscribed), "deleteSelectedPolygon", "none")
    /\ UNCHANGED <<activeSection, requests, confirmModalDeleteIsOpen>>
    /\ UNCHANGED <<baseVars, lifeVars, resVars, styleVars, overlayVars>>
    /\ UNCHANGED <<eventVars, routeVars>>
\* The user changes the draw tool's mode; the tool calls the mode-change
\* callback, modeChangePolygonService.
ToolModeChanged ==
    \E mode \in ToolModes :
        /\ NoQueuedReaction
        /\ phase = "mounted" /\ draw
        /\ Commit(modeChangePolygonService(Cur, mode), "modeChange", mode)
        /\ UNCHANGED <<activeSection, requests, confirmModalDeleteIsOpen>>
        /\ UNCHANGED <<baseVars, lifeVars, resVars, styleVars, overlayVars>>
        /\ UNCHANGED <<eventVars, routeVars>>
\* The user finishes the polygon being drawn, or modifies the finished one;
\* the tool calls the finish / update callback, handleDrawPolygonService.
ToolPolygonChanged ==
    \E polygon \in DrawablePolygons :
        /\ NoQueuedReaction
        /\ phase = "mounted" /\ draw
        /\ polygon # toolPolygon
        /\ LET c == [Cur EXCEPT !.toolPolygon = polygon]
           IN  Commit(handleDrawPolygonService(c, polygon, activeSection, subscribed),
                      IF toolPolygon = NoPolygon THEN "polygonFinished"
                      ELSE "polygonModified", "none")
        /\ UNCHANGED <<activeSection, requests, confirmModalDeleteIsOpen>>
        /\ UNCHANGED <<baseVars, lifeVars, resVars, styleVars, overlayVars>>
        /\ UNCHANGED <<eventVars, routeVars>>
\* The user deletes the polygon in the tool; the tool calls the delete
\* callback, clearPolygonSelection.
ToolPolygonDeleted ==
    /\ NoQueuedReaction
    /\ phase = "mounted" /\ draw
    /\ toolPolygon # NoPolygon
    /\ LET c == [Cur EXCEPT !.toolPolygon = NoPolygon]
       IN  Commit(clearPolygonSelection(c, subscribed), "polygonDeleted", "none")
    /\ UNCHANGED <<activeSection, requests, confirmModalDeleteIsOpen>>
    /\ UNCHANGED <<baseVars, lifeVars, resVars, styleVars, overlayVars>>
    /\ UNCHANGED <<eventVars, routeVars>>
\* The nodes collection changes by one node and 'collection.update.nodes' is
\* emitted; onNodesUpdated runs while it is subscribed.
CollectionUpdated ==
    \E node \in Nodes :
        /\ NoQueuedReaction
        /\ LET c == [Cur EXCEPT !.collection = IF node \in @ THEN @ \ {node}
                                               ELSE @ \cup {node}]
           IN  Commit(IF IsSubscribed("collection.update.nodes", "onNodesUpdated")
                      THEN onNodesUpdated(c, activeSection, subscribed) ELSE c,
                      "collectionUpdated", "none")
        /\ UNCHANGED <<activeSection, requests, confirmModalDeleteIsOpen>>
        /\ UNCHANGED <<baseVars, lifeVars, resVars, styleVars, overlayVars>>
        /\ UNCHANGED <<eventVars, routeVars>>
\* The ids handed to deleteUnusedNodes: selectedNodes.map((n) => n.getId()).
SelectedIds(nodes) == { nodes[k].id : k \in 1..Len(nodes) }

\* A variant of deleteSelectedNodes that sends the request at once, without
\* the confirmation modal.
DeleteSelectedNodes_sendsRequest ==
    /\ NoQueuedReaction
    /\ phase = "mounted"
    /\ IsSubscribed("map.deleteSelectedNodes", "deleteSelectedNodes")
    /\ Len(requests) < MaxRequests
    /\ requests' = Append(requests, [ids |-> SelectedIds(selection["nodes"]),
                                     stage |-> "pending", outcome |-> "none",
                                     rejected |-> FALSE])
    /\ Commit(emitProgress(Cur, 0), "deleteSelectedNodes", "none")
    /\ UNCHANGED <<activeSection, confirmModalDeleteIsOpen>>
    /\ UNCHANGED <<baseVars, lifeVars, resVars, styleVars, overlayVars>>
    /\ UNCHANGED <<eventVars, routeVars>>
\* 'map.deleteSelectedNodes' is emitted: MainMap.deleteSelectedNodes opens the
\* confirmation modal.
DeleteSelectedNodes ==
    /\ NoQueuedReaction
    /\ phase = "mounted"
    /\ IsSubscribed("map.deleteSelectedNodes", "deleteSelectedNodes")
    /\ confirmModalDeleteIsOpen' = TRUE
    /\ slast' = [slast EXCEPT !.op = "deleteSelectedNodes", !.arg = "none",
                              !.emitted = <<>>, !.progress = <<>>, !.resolved = 0]
    /\ UNCHANGED <<activeSection, draw, attachedTools, toolPolygon,
                   currentSelectionPolygon, selection, nodesCollection, requests>>
    /\ UNCHANGED <<baseVars, lifeVars, resVars, styleVars, overlayVars>>
    /\ UNCHANGED <<eventVars, routeVars>>
\* The modal is dismissed: closeModal.
CloseModal ==
    /\ NoQueuedReaction
    /\ phase = "mounted"
    /\ confirmModalDeleteIsOpen
    /\ confirmModalDeleteIsOpen' = FALSE
    /\ slast' = [slast EXCEPT !.op = "closeModal", !.arg = "none",
                              !.emitted = <<>>, !.progress = <<>>, !.resolved = 0]
    /\ UNCHANGED <<activeSection, draw, attachedTools, toolPolygon,
                   currentSelectionPolygon, selection, nodesCollection, requests>>
    /\ UNCHANGED <<baseVars, lifeVars, resVars, styleVars, overlayVars>>
    /\ UNCHANGED <<eventVars, routeVars>>
\* The modal's confirm action: MainMap.onDeleteSelectedNodes up to the request
\* it sends, then the modal closes.
OnDeleteSelectedNodes ==
    /\ NoQueuedReaction
    /\ phase = "mounted"
    /\ confirmModalDeleteIsOpen
    /\ Len(requests) < MaxRequests
    /\ requests' = Append(requests, [ids |-> SelectedIds(selection["nodes"]),
                                     stage |-> "pending", outcome |-> "none",
                                     rejected |-> FALSE])
    /\ confirmModalDeleteIsOpen' = FALSE
    /\ Commit(emitProgress(Cur, 0), "onDeleteSelectedNodes", "none")
    /\ UNCHANGED activeSection
    /\ UNCHANGED <<baseVars, lifeVars, resVars, styleVars, overlayVars>>
    /\ UNCHANGED <<eventVars, routeVars>>
\* The sequence without its k-th element.
RemoveAt(seq, k) == SubSeq(seq, 1, k - 1) \o SubSeq(seq, k + 1, Len(seq))

\* The .then reaction of onDeleteSelectedNodes. collectionManager.refresh
\* emits 'collection.update.nodes', which runs onNodesUpdated while subscribed.
onDeleteFulfilled(c, section, subs) ==
    IF c.rejected THEN c
    ELSE LET c1 == [deselect(c, "nodes") EXCEPT !.refreshed = TRUE]
             c2 == IF <<"collection.update.nodes", "onNodesUpdated">> \in subs
                   THEN onNodesUpdated(c1, section, subs) ELSE c1
         IN  emitUpdateLayers(c2, [transitNodes |-> CollectionFeatures(c2.collection),
                                   transitNodesSelected |-> EmptyCollection], subs)

\* A variant of the .catch reaction that passes the rejection on.
onDeleteRejected_rethrow(c) == c

\* The .catch reaction of onDeleteSelectedNodes: it logs the error and returns,
\* so the promise it yields is fulfilled.
onDeleteRejected(c) == IF c.rejected THEN [c EXCEPT !.rejected = FALSE] ELSE c

\* A variant of the .finally reaction that only reports the progress.
onDeleteSettled_progressOnly(c, subs) == emitProgress(c, 1)

\* The .finally reaction of onDeleteSelectedNodes.
onDeleteSettled(c, subs) == emitProgress(deleteSelectedPolygon(c, subs), 1)

\* A deleteUnusedNodes request settles. Fulfilled: the backend has deleted
\* some of the requested nodes and the .then reaction runs. Rejected: the
\* .catch reaction logs the error. Either way the .finally reaction is queued.
RequestSettles ==
    \E k \in 1..Len(requests), fulfilled \in BOOLEAN :
      \E deleted \in SUBSET (requests[k].ids \cap nodesCollection) :
        /\ NoQueuedReaction
        /\ fulfilled \/ deleted = {}
        /\ LET outcome == IF fulfilled THEN "fulfilled" ELSE "rejected"
               c == [Cur EXCEPT !.collection = @ \ deleted,
                                !.rejected = ~fulfilled, !.outcome = outcome]
               c1 == onDeleteRejected(onDeleteFulfilled(c, activeSection, subscribed))
           IN  /\ requests' = [requests EXCEPT ![k].stage = "finally",
                                               ![k].outcome = outcome,
                                               ![k].rejected = c1.rejected]
               /\ Commit(c1,
                         IF fulfilled THEN "requestFulfilled" ELSE "requestRejected",
                         "none")
        /\ UNCHANGED <<activeSection, confirmModalDeleteIsOpen>>
        /\ UNCHANGED <<baseVars, lifeVars, resVars, styleVars, overlayVars>>
        /\ UNCHANGED <<eventVars, routeVars>>
\* The queued .finally reaction of a settled request runs.
RequestFinally ==
    \E k \in 1..Len(requests) :
        /\ requests[k].stage = "finally"
        /\ requests' = RemoveAt(requests, k)
        /\ Commit(onDeleteSettled([Cur EXCEPT !.rejected = requests[k].rejected,
                                              !.outcome = requests[k].outcome],
                                  subscribed), "requestFinally",
                  IF SelectedIds(selection["nodes"]) # requests[k].ids
                  THEN "selectionChanged" ELSE "selectionSame")
        /\ UNCHANGED <<activeSection, confirmModalDeleteIsOpen>>
        /\ UNCHANGED <<baseVars, lifeVars, resVars, styleVars, overlayVars>>
        /\ UNCHANGED <<eventVars, routeVars>>
\* Mounting and unmounting, between handler runs.
SelMount == NoQueuedReaction /\ ComponentDidMount

SelUnmount == NoQueuedReaction /\ ComponentWillUnmount

SelNext ==
    \/ SelMount
    \/ SelUnmount
    \/ SectionChanged
    \/ HandleDrawControl
    \/ DeleteSelectedPolygon
    \/ ToolModeChanged
    \/ ToolPolygonChanged
    \/ ToolPolygonDeleted
    \/ CollectionUpdated
    \/ DeleteSelectedNodes
    \/ CloseModal
    \/ OnDeleteSelectedNodes
    \/ RequestSettles
    \/ RequestFinally

-----------------------------------------------------------------------------
(* Polygon-to-selection resolution over candidate features *)

\* The ids of the candidate features.
CandidateIds == 1..MaxCandidates

\* The map positions a feature can lie at and a polygon can cover.
Positions == {1, 2}

\* The features of the nodes collection: sequences of features with distinct
\* ids (the collection is keyed by id), in any order, each at any position and
\* frozen or not.
CandidateFeatures ==
    [id : CandidateIds, pos : Positions, is_frozen : BOOLEAN]

CandidateLists ==
    { list \in UNION { [1..n -> CandidateFeatures] : n \in 0..MaxCandidates } :
        \A i, j \in DOMAIN list : i # j => list[i].id # list[j].id }

\* A feature of a FeatureCollection whose geometry is neither a Polygon nor a
\* MultiPolygon.
PointFeature == [type |-> "Point", parts |-> <<>>]

Areas == SUBSET Positions

\* What the draw tool hands to handleDrawPolygonService: a simple polygon, a
\* MultiPolygon of two polygons, or a FeatureCollection.
ResolvablePolygons ==
    { Polygon(a) : a \in Areas }
    \cup { MultiPolygon(<<a, b>>) : a, b \in Areas \ {{}} }
    \cup { FeatureCollection(<<Polygon(a), Polygon(b)>>) : a, b \in Areas \ {{}} }
    \cup { FeatureCollection(<<PointFeature, MultiPolygon(<<a, Positions>>)>>) :
             a \in Areas \ {{}} }

\* The state record a handler run starts from, in the nodes section with a
\* draw tool attached.
ResCur ==
    [sel |-> resSelection, poly |-> resPolygon, draw |-> TRUE, tools |-> 1,
     toolPolygon |-> resPolygon, collection |-> {}, emitted |-> <<>>,
     progress |-> <<>>, resolved |-> 0, refreshed |-> FALSE, rejected |-> FALSE,
     outcome |-> "none"]

ResCommit(c, op, polygon) ==
    /\ resSelection' = c.sel
    /\ resPolygon' = c.poly
    /\ rlast' = [op |-> op, polygon |-> polygon, mode |-> "none",
                 prevNodes |-> resSelection["nodes"],
                 prevIsDrawPolygon |-> resSelection["isDrawPolygon"],
                 emitted |-> c.emitted]
    /\ UNCHANGED resCandidates

ResInit ==
    /\ resCandidates \in CandidateLists
    /\ resSelection = [k \in SelectionKeys |-> <<>>]
    /\ resPolygon = NoPolygon
    /\ rlast = [op |-> "constructor", polygon |-> NoPolygon, mode |-> "none",
                prevNodes |-> <<>>, prevIsDrawPolygon |-> <<>>, emitted |-> <<>>]

ResInitDefault == ResInit /\ resCandidates = <<>>

\* The draw tool's finish / update callback: handleDrawPolygonService(polygon)
\* in the nodes section.
ResolvePolygon ==
    \E polygon \in ResolvablePolygons :
        /\ polygon # resPolygon
        /\ ResCommit(selectNodesInPolygon(ResCur, polygon, resCandidates, {}),
                     "resolve", polygon)
        /\ UNCHANGED <<baseVars, lifeVars, selVars, styleVars, overlayVars>>
        /\ UNCHANGED <<eventVars, routeVars>>
\* The draw tool's delete callback: clearPolygonSelection.
ClearPolygon ==
    /\ resPolygon # NoPolygon
    /\ ResCommit(clearPolygonSelection(ResCur, {}), "clear", NoPolygon)
    /\ UNCHANGED <<baseVars, lifeVars, selVars, styleVars, overlayVars>>
    /\ UNCHANGED <<eventVars, routeVars>>
ResNext ==
    \/ ResolvePolygon
    \/ ClearPolygon

\* Candidate features some of which have no id property (id 0).
AnyCandidateFeatures ==
    [id : 0..MaxCandidates, pos : Positions, is_frozen : BOOLEAN]

\* Lists of such features; the ids that are there are distinct.
AnyCandidateLists ==
    { list \in UNION { [1..n -> AnyCandidateFeatures] : n \in 0..MaxCandidates } :
        \A i, j \in DOMAIN list :
            (i # j /\ list[i].id # 0) => list[i].id # list[j].id }

\* The shapes in which the draw tool can hand over one polygon: the simple
\* polygon, a MultiPolygon of it alone, and a FeatureCollection holding it
\* alone, as a Polygon or as a MultiPolygon.
SinglePolygonShapes(area) ==
    { Polygon(area), MultiPolygon(<<area>>),
      FeatureCollection(<<Polygon(area)>>),
      FeatureCollection(<<MultiPolygon(<<area>>)>>) }

SinglePolygons == UNION { SinglePolygonShapes(area) : area \in Areas }

\* The one polygon such a shape consists of.
ConstituentOf(polygonOrCollection) ==
    IF polygonOrCollection.type = "FeatureCollection"
    THEN polygonOrCollection.parts[1].parts[1]
    ELSE polygonOrCollection.parts[1]

\* The constructor's state, the nodes collection holding such features.
ResInitAnyIds ==
    /\ resCandidates \in AnyCandidateLists
    /\ resSelection = [k \in SelectionKeys |-> <<>>]
    /\ resPolygon = NoPolygon
    /\ rlast = [op |-> "constructor", polygon |-> NoPolygon, mode |-> "none",
                prevNodes |-> <<>>, prevIsDrawPolygon |-> <<>>, emitted |-> <<>>]

\* The draw tool's finish / update callback with one polygon in any shape.
ResolveSinglePolygon ==
    \E polygon \in SinglePolygons :
        /\ polygon # resPolygon
        /\ ResCommit(selectNodesInPolygon(ResCur, polygon, resCandidates, {}),
                     "resolve", polygon)
        /\ UNCHANGED <<baseVars, lifeVars, selVars, styleVars, overlayVars>>
        /\ UNCHANGED <<eventVars, routeVars>>
EquivalenceNext ==
    \/ ResolveSinglePolygon
    \/ ClearPolygon

\* The nodes selections other parts of the application leave in the selection
\* manager: none, or the placeholder of the legacy draw hack (a primitive in
\* place of the entities).
LegacySelections == { <<>>, <<Primitive("true")>>, <<Primitive("false")>> }

\* Another part of the application sets the nodes selection.
SelectionSetElsewhere ==
    \E items \in LegacySelections :
        /\ items # resSelection["nodes"]
        /\ resSelection' = [resSelection EXCEPT !["nodes"] = items]
        /\ rlast' = [op |-> "setSelection", polygon |-> resPolygon, mode |-> "none",
                     prevNodes |-> resSelection["nodes"],
                     prevIsDrawPolygon |-> resSelection["isDrawPolygon"],
                     emitted |-> <<>>]
        /\ UNCHANGED <<resCandidates, resPolygon>>
        /\ UNCHANGED <<baseVars, lifeVars, selVars, styleVars, overlayVars>>
        /\ UNCHANGED <<eventVars, routeVars>>
\* The draw tool changes mode and calls the mode-change callback,
\* modeChangePolygonService.
ModeChange ==
    \E mode \in ToolModes :
        /\ LET c == modeChangePolygonService(ResCur, mode)
           IN  /\ resSelection' = c.sel
               /\ resPolygon' = c.poly
               /\ rlast' = [op |-> "modeChange", polygon |-> resPolygon,
                            mode |-> mode,
                            prevNodes |-> resSelection["nodes"],
                            prevIsDrawPolygon |-> resSelection["isDrawPolygon"],
                            emitted |-> c.emitted]
        /\ UNCHANGED resCandidates
        /\ UNCHANGED <<baseVars, lifeVars, selVars, styleVars, overlayVars>>
        /\ UNCHANGED <<eventVars, routeVars>>
ModeNext ==
    \/ ResolvePolygon
    \/ SelectionSetElsewhere
    \/ ModeChange

-----------------------------------------------------------------------------
(* Map style: the steps *)

\* The map's style is replaced or changed: the style is no longer loaded, the
\* layers and the source added at run time may be gone, and so may the
\* control, depending on what the map library keeps.
StyleReload ==
    \E kept \in SUBSET mapLayers, keepsSource, keepsControl \in BOOLEAN :
        /\ phase = "mounted" /\ loadFired
        /\ styleLoaded
        /\ styleLoaded' = FALSE
        /\ mapLayers' = kept
        /\ customTiles' = (customTiles /\ keepsSource)
        /\ controls' = IF keepsControl THEN controls ELSE 0
        /\ menu' = IF ~keepsControl /\ menu = "attached" THEN "removed" ELSE menu
        /\ stlast' = [op |-> "styleReload", ran |-> FALSE, updateCalled |-> FALSE,
                      controlAdded |-> FALSE, preMapLayers |-> mapLayers,
                      preEnabled |-> enabledLayers, preMenu |-> menu]
        /\ aerialVisibility' = IF aerialTilesUrl THEN getMapStyle(initialShowAerialRef)
                                                  ELSE aerialVisibility
        /\ UNCHANGED <<stateLayers, enabledLayers, pendingTimers,
                       initialShowAerialRef, aerialEffectDeps>>
        /\ UNCHANGED <<baseVars, lifeVars, selVars, resVars, overlayVars>>
        /\ UNCHANGED <<eventVars, routeVars>>
\* The style finishes loading without an event this component listens to
\* (its sources have loaded).
StyleBecomesLoaded ==
    /\ phase = "mounted" /\ loadFired
    /\ ~styleLoaded
    /\ styleLoaded' = TRUE
    /\ stlast' = [op |-> "styleLoaded", ran |-> FALSE, updateCalled |-> FALSE,
                  controlAdded |-> FALSE, preMapLayers |-> mapLayers,
                  preEnabled |-> enabledLayers, preMenu |-> menu]
    /\ UNCHANGED <<stateLayers, enabledLayers, mapLayers, customTiles, controls,
                   menu, pendingTimers, aerialVisibility, initialShowAerialRef,
                   aerialEffectDeps>>
    /\ UNCHANGED <<baseVars, lifeVars, selVars, resVars, overlayVars>>
    /\ UNCHANGED <<eventVars, routeVars>>
\* The map fires 'style.load': the listener is onStyleChange. The style's
\* sources may still be loading, in which case isStyleLoaded() is false.
StyleLoadEvent ==
    \E loaded \in BOOLEAN :
        /\ phase = "mounted" /\ "style.load" \in nativeListeners
        /\ ~styleLoaded
        /\ styleLoaded' = loaded
        /\ StyleCommit(onStyleChange(StyleCur, HasMap, loaded, stateLayers),
                       "style.load")
        /\ UNCHANGED <<baseVars, lifeVars, selVars, resVars, overlayVars>>
        /\ UNCHANGED <<eventVars, routeVars>>
\* The map fires 'styledata': the listener calls onStyleChange if the style is
\* loaded. The event also fires when the style is already loaded.
StyleDataEvent ==
    \E loaded \in BOOLEAN :
        /\ phase = "mounted" /\ "styledata" \in nativeListeners
        /\ styleLoaded => loaded
        /\ styleLoaded' = loaded
        /\ StyleCommit(IF loaded
                       THEN onStyleChange(StyleCur, HasMap, loaded, stateLayers)
                       ELSE StyleCur, "styledata")
        /\ UNCHANGED <<baseVars, lifeVars, selVars, resVars, overlayVars>>
        /\ UNCHANGED <<eventVars, routeVars>>
\* A deferred call of onStyleChange runs, possibly after the unmount.
TimerFires ==
    /\ pendingTimers > 0
    /\ StyleCommit(onStyleChange([StyleCur EXCEPT !.timers = @ - 1],
                                 HasMap, styleLoaded, stateLayers), "timer")
    /\ UNCHANGED styleLoaded
    /\ UNCHANGED <<baseVars, lifeVars, selVars, resVars, overlayVars>>
    /\ UNCHANGED <<eventVars, routeVars>>
\* 'map.updateEnabledLayers' is emitted with a list of layer names.
UpdateEnabledLayers ==
    \E names \in LayerLists :
        /\ IsSubscribed("map.updateEnabledLayers", "updateEnabledLayers")
        /\ loadFired
        /\ names # enabledLayers
        /\ StyleCommit(updateEnabledLayers(StyleCur, names), "updateEnabledLayers")
        /\ UNCHANGED styleLoaded
        /\ UNCHANGED <<baseVars, lifeVars, selVars, resVars, overlayVars>>
        /\ UNCHANGED <<eventVars, routeVars>>
StyleNext ==
    \/ ComponentDidMount
    \/ OnLoad
    \/ ComponentWillUnmount
    \/ StyleReload
    \/ StyleBecomesLoaded
    \/ StyleLoadEvent
    \/ StyleDataEvent
    \/ TimerFires
    \/ UpdateEnabledLayers

-----------------------------------------------------------------------------
(* Deck.gl overlay: the steps *)

\* MapRenderer's deck-layers effect runs, for the first time after the mount
\* or again after mapLoaded or zoom changed: the previous run's cleanup
\* unsubscribes, updateDeckLayers runs once and is subscribed again.
RendererEffect ==
    /\ phase = "mounted"
    /\ effectDue
    /\ effectDue' = FALSE
    /\ rendererMapLoaded' = mapLoaded
    /\ resubscribed' = (resubscribed \/ "updateDeckLayers" \in Range(busOrder))
    /\ deckLayers' = updateDeckLayers(mapLoaded, mapLoaded, layerData, mapZoom)
    /\ busOrder' = on(off(busOrder, "updateDeckLayers"), "updateDeckLayers")
    /\ olast' = OverlaySnapshot("effect", NoBatch, <<>>)
    /\ UNCHANGED <<layerData, mapZoom>>
    /\ UNCHANGED <<baseVars, lifeVars, selVars, resVars, styleVars>>
    /\ UNCHANGED <<eventVars, routeVars>>
\* The user moves the map to another zoom level (onMove): viewState.zoom
\* changes and the deck-layers effect becomes due. (The zoom effect's call of
\* handleZoomChange is the base-layer switcher's step ZoomChanged.)
MapMoved ==
    \E zoom \in OverlayZooms :
        /\ phase = "mounted"
        /\ zoom # mapZoom
        /\ mapZoom' = zoom
        /\ effectDue' = TRUE
        /\ olast' = OverlaySnapshot("move", NoBatch, <<>>)
        /\ UNCHANGED <<layerData, busOrder, rendererMapLoaded, resubscribed, deckLayers>>
        /\ UNCHANGED <<baseVars, lifeVars, selVars, resVars, styleVars>>
        /\ UNCHANGED <<eventVars, routeVars>>
\* 'map.updateLayers' is emitted with a batch of payloads; the bus calls the
\* registered handlers in order.
EmitUpdateLayers ==
    \E batch \in Batches :
        LET o == emitToHandlers(busOrder,
                                [data |-> layerData, deck |-> deckLayers, read |-> <<>>,
                                 propLoaded |-> rendererMapLoaded,
                                 loaded |-> mapLoaded, zoom |-> mapZoom],
                                batch)
        IN  /\ layerData' = o.data
            /\ deckLayers' = o.deck
            /\ olast' = OverlaySnapshot("emit", batch, o.read)
            /\ UNCHANGED <<mapZoom, busOrder, rendererMapLoaded, effectDue, resubscribed>>
            /\ UNCHANGED <<baseVars, lifeVars, selVars, resVars, styleVars>>
            /\ UNCHANGED <<eventVars, routeVars>>
\* After the unmount the cleanup of MapRenderer's effect unsubscribes
\* updateDeckLayers.
RendererCleanup ==
    /\ phase = "unmounted"
    /\ "updateDeckLayers" \in Range(busOrder)
    /\ busOrder' = off(busOrder, "updateDeckLayers")
    /\ olast' = OverlaySnapshot("cleanup", NoBatch, <<>>)
    /\ UNCHANGED <<layerData, mapZoom, rendererMapLoaded, effectDue, resubscribed,
                   deckLayers>>
    /\ UNCHANGED <<baseVars, lifeVars, selVars, resVars, styleVars>>
    /\ UNCHANGED <<eventVars, routeVars>>
OverlayNext ==
    \/ ComponentDidMount
    \/ RendererEffect
    \/ OnLoad
    \/ ApplyStateUpdate
    \/ MapMoved
    \/ EmitUpdateLayers
    \/ ComponentWillUnmount
    \/ RendererCleanup

-----------------------------------------------------------------------------
(* Aerial layer visibility: the steps *)

\* Zoom levels below, inside and above the configured range [10, 20].
AerialZooms == { z \in Zooms : z \in {5, 12, 21} }

\* MapRenderer's zoom effect calls handleZoomChange after a move of the map.
AerialZoomChanged ==
    \E zoom \in AerialZooms : phase = "mounted" /\ HandleZoomChange(zoom)

\* The user picks a layer in the layer-switch control.
AerialLayerChosen ==
    \E layerType \in BaseLayers :
        /\ phase = "mounted" /\ menu = "attached"
        /\ HandleLayerChange(layerType, TRUE)

\* MapRenderer's effect on [showAerialTiles, mapLoaded] runs: after the mount
\* and after every render in which one of the two has changed.
AerialVisibilityEffect ==
    /\ phase = "mounted"
    /\ aerialEffectDeps # <<showAerialTiles, mapLoaded>>
    /\ aerialEffectDeps' = <<showAerialTiles, mapLoaded>>
    /\ aerialVisibility' = aerialVisibilityEffect(aerialVisibility, HasMap, mapLoaded,
                                                  aerialTilesUrl, showAerialTiles)
    /\ stlast' = [op |-> "aerialEffect", ran |-> FALSE, updateCalled |-> FALSE,
                  controlAdded |-> FALSE, preMapLayers |-> mapLayers,
                  preEnabled |-> enabledLayers, preMenu |-> menu]
    /\ UNCHANGED <<stateLayers, enabledLayers, mapLayers, customTiles, styleLoaded,
                   controls, menu, pendingTimers, initialShowAerialRef>>
    /\ UNCHANGED <<baseVars, lifeVars, selVars, resVars, overlayVars>>
    /\ UNCHANGED <<eventVars, routeVars>>
AerialNext ==
    \/ ComponentDidMount
    \/ OnLoad
    \/ ApplyStateUpdate
    \/ AerialZoomChanged
    \/ AerialLayerChosen
    \/ AerialVisibilityEffect
    \/ StyleReload
    \/ StyleLoadEvent
    \/ TimerFires

-----------------------------------------------------------------------------
(* Native map events: the constructor's grouping of the event descriptors   *)
(* into this.mapEvents, and executeEvents. A descriptor is [eventName, type, *)
(* layerName, condition, cancels, handler]: condition is "undefined" or the  *)
(* section it accepts, cancels is whether its handler sets cancelBubble on   *)
(* the original event, handler names the handler by its place in the list.   *)

EventNames == {"click"}

EventLayerNames == {"transitNodes"}

\* The keys of this.mapEvents[eventName]: a layer name, or 'map'.
LayerKeys == EventLayerNames \cup {"map"}

DescriptorKinds ==
    [type : {"layer", "map"}, condition : {"undefined", "nodes", "agencies"},
     cancels : BOOLEAN]

\* globalMapEvents and transitionMapEvents, flattened: lists of descriptors.
DescriptorLists ==
    UNION { { [i \in 1..n |->
                 [eventName |-> "click", type |-> kinds[i].type,
                  layerName |-> IF kinds[i].type = "layer" THEN "transitNodes"
                                                            ELSE "none",
                  condition |-> kinds[i].condition, cancels |-> kinds[i].cancels,
                  handler |-> i]] : kinds \in [1..n -> DescriptorKinds] }
            : n \in 0..MaxHandlers }

\* The events the map hands to a listener: without an original event, or with
\* one whose cancelBubble is set or not.
NativeEvents ==
    { [hasOriginal |-> FALSE, cancelBubble |-> FALSE],
      [hasOriginal |-> TRUE, cancelBubble |-> FALSE],
      [hasOriginal |-> TRUE, cancelBubble |-> TRUE] }

\* The key a descriptor is filed under.
LayerKeyOf(eventDescriptor) ==
    IF eventDescriptor.type = "layer" THEN eventDescriptor.layerName ELSE "map"

\* The constructor's forEach over the descriptors: each is pushed to the list
\* of its event name and key.
RECURSIVE groupEvents(_, _)
groupEvents(grouped, newEventsArr) ==
    IF newEventsArr = <<>> THEN grouped
    ELSE LET eventDescriptor == Head(newEventsArr)
         IN  groupEvents([grouped EXCEPT ![eventDescriptor.eventName]
                                            [LayerKeyOf(eventDescriptor)]
                                              = Append(@, eventDescriptor)],
                         Tail(newEventsArr))

\* this.mapEvents = {} (a missing entry reads as the empty list).
NoMapEvents == [eventName \in EventNames |-> [key \in LayerKeys |-> <<>>]]

\* event.condition === undefined || event.condition(this.props.activeSection)
conditionAccepts(event, section) ==
    event.condition = "undefined" \/ event.condition = section

\* event.handler(e): the run r = [e, invoked] after the call.
callHandler(r, event) ==
    [r EXCEPT !.invoked = Append(@, event.handler),
              !.e.cancelBubble = @ \/ (r.e.hasOriginal /\ event.cancels)]

\* e.originalEvent && e.originalEvent.cancelBubble === true
isCancelled(e) == e.hasOriginal /\ e.cancelBubble

\* A variant of the loop that goes on after a handler has cancelled the event.
RECURSIVE executeEventsFrom_noBreak(_, _, _, _)
executeEventsFrom_noBreak(r, events, eventIndex, section) ==
    IF eventIndex > Len(events) THEN r
    ELSE LET event == events[eventIndex]
             r1 == IF conditionAccepts(event, section) THEN callHandler(r, event)
                                                        ELSE r
         IN  executeEventsFrom_noBreak(r1, events, eventIndex + 1, section)

executeEvents_noBreak(e, events, section) ==
    LET r == [e |-> e, invoked |-> <<>>]
    IN  IF isCancelled(e) THEN r ELSE executeEventsFrom_noBreak(r, events, 1, section)

\* The for loop of executeEvents from index eventIndex on.
RECURSIVE executeEventsFrom(_, _, _, _)
executeEventsFrom(r, events, eventIndex, section) ==
    IF eventIndex > Len(events) THEN r
    ELSE LET event == events[eventIndex]
             r1 == IF conditionAccepts(event, section) THEN callHandler(r, event)
                                                        ELSE r
         IN  IF isCancelled(r1.e) THEN r1
             ELSE executeEventsFrom(r1, events, eventIndex + 1, section)

\* MainMap.executeEvents(e, events), section being this.props.activeSection.
executeEvents(e, events, section) ==
    LET r == [e |-> e, invoked |-> <<>>]
    IN  IF isCancelled(e) THEN r ELSE executeEventsFrom(r, events, 1, section)

\* MainMap.constructor: the descriptors are grouped into this.mapEvents.
EventInit ==
    /\ \E newEventsArr \in DescriptorLists :
          mapEvents = groupEvents(NoMapEvents, newEventsArr)
    /\ elast = [op |-> "constructor", e |-> [hasOriginal |-> FALSE, cancelBubble |-> FALSE],
                eventName |-> "click", layerKey |-> "map", section |-> "nodes",
                invoked |-> <<>>, cancelBubble |-> FALSE]

\* The constructor's state without event descriptors, where the
\* specifications of the other concerns start.
EventInitDefault == EventInit /\ mapEvents = NoMapEvents

\* The map fires a native event on the map or on a layer; the listener
\* setupMapEvents registered for it, getEventHandler(events), runs
\* executeEvents.
NativeEvent ==
    \E e \in NativeEvents, eventName \in EventNames, key \in LayerKeys :
        LET r == executeEvents(e, mapEvents[eventName][key], activeSection)
        IN  /\ elast' = [op |-> "nativeEvent", e |-> e, eventName |-> eventName,
                         layerKey |-> key, section |-> activeSection,
                         invoked |-> r.invoked, cancelBubble |-> r.e.cancelBubble]
            /\ UNCHANGED mapEvents
            /\ UNCHANGED <<baseVars, lifeVars, selVars, resVars, styleVars, overlayVars>>
            /\ UNCHANGED routeVars

EventNext == NativeEvent

-----------------------------------------------------------------------------
(* Routes: PrivateRoute and AdminRoute as functions of their props. What a  *)
(* route element renders is "Navigate /login", "Navigate /unauthorized",    *)
(* "Header + Component", or the boolean "true" / "false" (React renders     *)
(* nothing for a boolean).                                                  *)

PermissionSubjects == {"all", "nodes"}

PermissionActions == {"manage", "read"}

\* The permissions prop: undefined, or one subject with the action required.
NoPermissions == [given |-> FALSE, subject |-> "none", action |-> "none"]

PermissionsProps ==
    {NoPermissions}
    \cup [given : {TRUE}, subject : PermissionSubjects, action : PermissionActions]

\* The users: what each is allowed to do.
RouteUsers == [grants : SUBSET (PermissionSubjects \X PermissionActions)]

\* user.isAuthorized(permissions): the user may do the action on the subject,
\* or manage the subject, or manage everything.
isAuthorized(user, permissions) ==
    \/ <<permissions.subject, permissions.action>> \in user.grants
    \/ <<permissions.subject, "manage">> \in user.grants
    \/ <<"all", "manage">> \in user.grants

\* A boolean as the value a component returns.
BooleanValue(b) == IF b THEN "true" ELSE "false"

\* PrivateRoute: isAuthenticated ? (permissions ? isAuthorized(permissions)
\* : (true ? <Header/Component> : <Navigate /unauthorized>)) : <Navigate /login>,
\* the conditional operator being right-associative.
PrivateRoute(isAuthenticated, user, permissions) ==
    IF isAuthenticated
    THEN IF permissions.given
         THEN BooleanValue(isAuthorized(user, permissions))
         ELSE IF TRUE THEN "Header + Component" ELSE "Navigate /unauthorized"
    ELSE "Navigate /login"

\* AdminRoute: PrivateRoute with permissions {all: 'manage'}.
AdminRoute(isAuthenticated, user) ==
    PrivateRoute(isAuthenticated, user,
                 [given |-> TRUE, subject |-> "all", action |-> "manage"])

\* No route element has been rendered.
RouteInit ==
    /\ routeProps = [route |-> "none", isAuthenticated |-> FALSE,
                     user |-> [grants |-> {}], permissions |-> NoPermissions]
    /\ routeOutcome = "none"

\* The router renders a PrivateRoute element.
RenderPrivateRoute ==
    \E isAuthenticated \in BOOLEAN, user \in RouteUsers,
       permissions \in PermissionsProps :
        /\ routeProps' = [route |-> "PrivateRoute", isAuthenticated |-> isAuthenticated,
                          user |-> user, permissions |-> permissions]
        /\ routeOutcome' = PrivateRoute(isAuthenticated, user, permissions)
        /\ UNCHANGED <<baseVars, lifeVars, selVars, resVars, styleVars, overlayVars>>
        /\ UNCHANGED eventVars

\* The router renders an AdminRoute element.
RenderAdminRoute ==
    \E isAuthenticated \in BOOLEAN, user \in RouteUsers :
        /\ routeProps' = [route |-> "AdminRoute", isAuthenticated |-> isAuthenticated,
                          user |-> user,
                          permissions |-> [given |-> TRUE, subject |-> "all",
                                           action |-> "manage"]]
        /\ routeOutcome' = AdminRoute(isAuthenticated, user)
        /\ UNCHANGED <<baseVars, lifeVars, selVars, resVars, styleVars, overlayVars>>
        /\ UNCHANGED eventVars

RouteNext == RenderPrivateRoute \/ RenderAdminRoute

-----------------------------------------------------------------------------
(* The specifications *)

InitBaseLayer ==
    BaseInit /\ LifeInit /\ SelInitDefault /\ ResInitDefault /\ StyleInitDefault
    /\ OverlayInitDefault /\ EventInitDefault /\ RouteInit

InitLifecycle ==
    BaseInitDefault /\ LifeInit /\ SelInitDefault /\ ResInitDefault /\ StyleInitDefault
    /\ OverlayInitDefault /\ EventInitDefault /\ RouteInit

InitSelection ==
    BaseInitDefault /\ LifeInit /\ SelInit /\ ResInitDefault /\ StyleInitDefault
    /\ OverlayInitDefault /\ EventInitDefault /\ RouteInit

InitResolution ==
    BaseInitDefault /\ LifeInit /\ SelInitDefault /\ ResInit /\ StyleInitDefault
    /\ OverlayInitDefault /\ EventInitDefault /\ RouteInit

\* The switcher's constructor state with or without an aerial source, in the
\* default range.
BaseInitAerial ==
    /\ aerialTilesUrl \in BOOLEAN
    /\ aerialMinZoom = 0 /\ aerialMaxZoom = 22
    /\ storedPreference = "osm"
    /\ userPreferredLayer = "osm"
    /\ showAerialTiles = FALSE
    /\ currentZoom = 0
    /\ zlast = [op |-> "constructor", zoomArg |-> 0, layerArg |-> "osm",
                writeOk |-> TRUE, thrown |-> FALSE, show |-> FALSE, zoom |-> 0,
                preferred |-> "osm", stored |-> "osm"]

InitStyle ==
    BaseInitAerial /\ LifeInit /\ SelInitDefault /\ ResInitDefault /\ StyleInit
    /\ OverlayInitDefault /\ EventInitDefault /\ RouteInit

InitOverlay ==
    BaseInitDefault /\ LifeInit /\ SelInitDefault /\ ResInitDefault /\ StyleInitDefault
    /\ OverlayInit /\ EventInitDefault /\ RouteInit

SpecOverlay == InitOverlay /\ [][OverlayNext]_vars

SpecBaseLayer == InitBaseLayer /\ [][BaseNext]_vars

SpecLifecycle == InitLifecycle /\ [][LifeNext]_vars

SpecSelection == InitSelection /\ [][SelNext]_vars

SpecResolution == InitResolution /\ [][ResNext]_vars

SpecStyle == InitStyle /\ [][StyleNext]_vars

\* The mode changes are checked over collections of unfrozen nodes lying at
\* one position: which nodes a polygon selects does not matter to them.
InitToolMode ==
    BaseInitDefault /\ LifeInit /\ SelInitDefault /\ ResInit /\ StyleInitDefault
    /\ OverlayInitDefault /\ EventInitDefault /\ RouteInit
    /\ \A i \in DOMAIN resCandidates :
          ~resCandidates[i].is_frozen /\ resCandidates[i].pos \in {1}

SpecToolMode == InitToolMode /\ [][ModeNext]_vars

\* The switcher's constructor state with an aerial source configured for the
\* range [10, 20], the map starting inside it.
BaseInitRanged ==
    BaseInit /\ aerialTilesUrl /\ aerialMinZoom = 10 /\ aerialMaxZoom = 20
    /\ currentZoom = 12

InitAerial ==
    BaseInitRanged /\ LifeInit /\ SelInitDefault /\ ResInitDefault /\ StyleInitDefault
    /\ OverlayInitDefault /\ EventInitDefault /\ RouteInit

SpecAerial == InitAerial /\ [][AerialNext]_vars

InitEquivalence ==
    BaseInitDefault /\ LifeInit /\ SelInitDefault /\ ResInitAnyIds /\ StyleInitDefault
    /\ OverlayInitDefault /\ EventInitDefault /\ RouteInit

SpecEquivalence == InitEquivalence /\ [][EquivalenceNext]_vars

InitMapEvents ==
    BaseInitDefault /\ LifeInit /\ SelInit /\ ResInitDefault /\ StyleInitDefault
    /\ OverlayInitDefault /\ EventInit /\ RouteInit

SpecMapEvents == InitMapEvents /\ [][EventNext]_vars

InitRoute ==
    BaseInitDefault /\ LifeInit /\ SelInitDefault /\ ResInitDefault /\ StyleInitDefault
    /\ OverlayInitDefault /\ EventInitDefault /\ RouteInit

SpecRoute == InitRoute /\ [][RouteNext]_vars

-----------------------------------------------------------------------------
(* Properties of the base-layer switcher, checked under SpecBaseLayer *)

LastWasZoomChange == zlast.op = "handleZoomChange"
LastWasLayerChange == zlast.op = "handleLayerChange"

\* inRange and wasInRange of the last handleZoomChange call.
LastInRange == isZoomInAerialRange(zlast.zoomArg, aerialMinZoom, aerialMaxZoom)
LastWasInRange == isZoomInAerialRange(zlast.zoom, aerialMinZoom, aerialMaxZoom)

\* The turn-on rule applied to the last handleZoomChange call.
LastTurnOnRule == zlast.preferred = "aerial" /\ LastInRange /\ ~LastWasInRange

\* C2 as stated: with an aerial source, handleZoomChange turns aerial off only
\* if aerial was visible and the zoom has just left the range (previous zoom in
\* range, new zoom out of range); when neither that rule nor the turn-on rule
\* applies, showAerialTiles is unchanged.
C2_TurnOffOnlyWhenJustLeftRange ==
    (aerialTilesUrl /\ LastWasZoomChange) =>
        LET justLeft == zlast.show /\ LastWasInRange /\ ~LastInRange
        IN  /\ (zlast.show /\ ~showAerialTiles) => justLeft
            /\ (~LastTurnOnRule /\ ~justLeft) => showAerialTiles = zlast.show

\* C2 amended: with an aerial source, handleZoomChange turns aerial off only if
\* aerial was visible and the new zoom is outside the range, whatever the
\* previous zoom was; when neither that rule nor the turn-on rule applies,
\* showAerialTiles is unchanged.
C2_TurnOffOnlyWhenOutOfRange ==
    (aerialTilesUrl /\ LastWasZoomChange) =>
        LET outOfRange == zlast.show /\ ~LastInRange
        IN  /\ (zlast.show /\ ~showAerialTiles) => outOfRange
            /\ (~LastTurnOnRule /\ ~outOfRange) => showAerialTiles = zlast.show

\* C2 witness: aerial was visible, the previous zoom was already out of range,
\* the new zoom is out of range too, and aerial has been turned off.
C2_Witness ==
    /\ aerialTilesUrl /\ LastWasZoomChange
    /\ zlast.show /\ ~showAerialTiles
    /\ ~LastWasInRange /\ ~LastInRange

\* C3: with an aerial source and preference aerial, a handleZoomChange whose
\* previous zoom was outside [minZoom, maxZoom] and whose new zoom is inside
\* sets showAerialTiles to true.
C3_TurnOnWhenEnteringRange ==
    (aerialTilesUrl /\ LastWasZoomChange /\ LastTurnOnRule) => showAerialTiles

\* C3 witness: the rule has turned on an aerial layer that was hidden.
C3_Witness ==
    /\ aerialTilesUrl /\ LastWasZoomChange /\ LastTurnOnRule
    /\ ~zlast.show /\ showAerialTiles

\* C4: handleLayerChange(choice) sets showAerialTiles to (choice = aerial) and
\* userPreferredLayer to choice whatever the zoom, and writes choice to the
\* preference store (which holds it once the write is accepted).
C4_LayerChoiceIsUnconditional ==
    LastWasLayerChange =>
        /\ showAerialTiles = (zlast.layerArg = "aerial")
        /\ userPreferredLayer = zlast.layerArg
        /\ currentZoom = zlast.zoom
        /\ zlast.writeOk => storedPreference = zlast.layerArg

\* C4 witness: the standard layer chosen while aerial is visible and the zoom
\* is in range; aerial is hidden and the standard choice is stored.
C4_Witness ==
    /\ aerialTilesUrl /\ LastWasLayerChange
    /\ zlast.layerArg = "osm" /\ zlast.show /\ zlast.stored = "aerial"
    /\ isZoomInAerialRange(currentZoom, aerialMinZoom, aerialMaxZoom)
    /\ ~showAerialTiles /\ storedPreference = "osm"

\* The state after the zoom change 8 to 12 with preference aerial and aerial
\* range [10, 20].
C5_AfterEightToTwelve ==
    /\ aerialTilesUrl /\ aerialMinZoom = 10 /\ aerialMaxZoom = 20
    /\ LastWasZoomChange /\ zlast.zoom = 8 /\ zlast.zoomArg = 12
    /\ zlast.preferred = "aerial"

\* C5: with preference aerial and aerial range [10, 20], the zoom change 8 to
\* 12 leaves aerial visible, a following zoom change 12 to 25 leaves it hidden
\* with userPreferredLayer still aerial, and no handleZoomChange call modifies
\* userPreferredLayer or the stored preference.
C5_ZoomScenarioKeepsPreference ==
    [][ /\ C5_AfterEightToTwelve' => showAerialTiles'
        /\ (C5_AfterEightToTwelve /\ zlast'.op = "handleZoomChange" /\ zlast'.zoomArg = 25)
              => (~showAerialTiles' /\ userPreferredLayer' = "aerial")
        /\ zlast'.op = "handleZoomChange"
              => (/\ userPreferredLayer' = userPreferredLayer
                  /\ storedPreference' = storedPreference) ]_vars

\* C5 witness: the zoom change 12 to 25 has hidden an aerial layer that was
\* visible, the preference being aerial before and after.
C5_Witness ==
    /\ aerialTilesUrl /\ aerialMinZoom = 10 /\ aerialMaxZoom = 20
    /\ LastWasZoomChange /\ zlast.zoom = 12 /\ zlast.zoomArg = 25
    /\ zlast.preferred = "aerial" /\ zlast.show
    /\ ~showAerialTiles /\ userPreferredLayer = "aerial" /\ storedPreference = "aerial"

\* C6: without an aerial source, handleZoomChange(z) only records the zoom:
\* currentZoom = z, and showAerialTiles and userPreferredLayer are unchanged.
C6_NoAerialSourceOnlyRecordsZoom ==
    (~aerialTilesUrl /\ LastWasZoomChange) =>
        /\ currentZoom = zlast.zoomArg
        /\ showAerialTiles = zlast.show
        /\ userPreferredLayer = zlast.preferred
        /\ storedPreference = zlast.stored

\* C6 witness: no aerial source, the flag set, and a zoom change to a level out
\* of range, which with a source would have cleared the flag.
C6_Witness ==
    /\ ~aerialTilesUrl /\ LastWasZoomChange
    /\ zlast.show /\ showAerialTiles
    /\ ~LastInRange /\ zlast.zoomArg # zlast.zoom
    /\ currentZoom = zlast.zoomArg

\* C27: when the preference-store write of handleLayerChange fails, the
\* handler has still set showAerialTiles and userPreferredLayer to the chosen
\* layer, the store keeps its value, and no exception reaches the caller.
C27_FailedWriteStillUpdatesState ==
    (LastWasLayerChange /\ ~zlast.writeOk) =>
        /\ showAerialTiles = (zlast.layerArg = "aerial")
        /\ userPreferredLayer = zlast.layerArg
        /\ storedPreference = zlast.stored
        /\ ~zlast.thrown

\* C27 witness: aerial was chosen while the standard layer was shown and
\* stored, and the write failed.
C27_Witness ==
    /\ LastWasLayerChange /\ ~zlast.writeOk
    /\ zlast.layerArg = "aerial" /\ ~zlast.show /\ zlast.stored = "osm"
    /\ showAerialTiles /\ userPreferredLayer = "aerial" /\ storedPreference = "osm"

\* C31: in every state of a session, aerial is shown only to a user whose
\* preference is aerial.
C31_AerialShownOnlyIfPreferred ==
    showAerialTiles => userPreferredLayer = "aerial"

\* C31 witness: a zoom change into the range has turned aerial on for a user
\* preferring aerial.
C31_Witness ==
    /\ LastWasZoomChange /\ aerialTilesUrl
    /\ ~zlast.show /\ showAerialTiles /\ userPreferredLayer = "aerial"

\* C32: in every state of a session, a user preferring aerial sees it
\* whenever the recorded zoom is inside the aerial range.
C32_PreferredAerialShownInRange ==
    (/\ userPreferredLayer = "aerial"
     /\ isZoomInAerialRange(currentZoom, aerialMinZoom, aerialMaxZoom))
        => showAerialTiles

\* C32 witness: the zoom has come back into the range from above it, the
\* preference being aerial, and aerial is shown again.
C32_Witness ==
    /\ LastWasZoomChange /\ aerialTilesUrl
    /\ userPreferredLayer = "aerial"
    /\ zlast.zoom > aerialMaxZoom
    /\ isZoomInAerialRange(currentZoom, aerialMinZoom, aerialMaxZoom)
    /\ ~zlast.show /\ showAerialTiles

\* C33: with an aerial source configured, right after handleZoomChange(z)
\* aerial is shown only if z is inside the aerial range, whatever the state
\* before the call.
C33_ZoomChangeNeverShowsOutOfRange ==
    (LastWasZoomChange /\ aerialTilesUrl /\ showAerialTiles) => LastInRange

\* C33 witness: aerial was shown out of range (chosen there by the user), the
\* zoom changed to another level out of range, and aerial was turned off.
C33_Witness ==
    /\ LastWasZoomChange /\ aerialTilesUrl
    /\ zlast.show /\ ~LastWasInRange /\ ~LastInRange
    /\ ~showAerialTiles

-----------------------------------------------------------------------------
(* Properties of the lifecycle, checked under SpecLifecycle *)

\* C1: every (event name, handler) pair componentDidMount registers on the bus
\* is unregistered by componentWillUnmount: after unmount none of the
\* component's handlers remains subscribed to any bus event.
C1_UnmountUnsubscribesAll ==
    phase = "unmounted" => subscribed \cap DidMountRegistrations = {}

\* The session counts as marked loaded once mapLoaded: true is set or queued.
SessionMarkedLoaded == mapLoaded \/ pendingMapLoaded

\* C7: a map-level error that occurs before the session has been marked loaded
\* marks the session loaded and 'map.loaded' has been emitted.
C7_ErrorBeforeLoadMarksLoaded ==
    (llast.op = "mapError" /\ ~llast.mapLoaded /\ ~llast.pendingMapLoaded) =>
        (SessionMarkedLoaded /\ loadedEmitted >= 1)

\* C34: 'map.loaded' is emitted at most once in a session, however the map
\* load and the map errors interleave, and an error after the session is
\* loaded changes no state and emits nothing.
C34_LoadedEmittedAtMostOnce ==
    /\ loadedEmitted <= 1
    /\ (llast.op = "mapError" /\ llast.mapLoaded) =>
           /\ loadedEmitted = llast.loadedEmitted
           /\ mapLoaded = llast.mapLoaded
           /\ pendingMapLoaded = llast.pendingMapLoaded

\* The first call comes before the second in the trace.
CalledBefore(trace, first, second) ==
    \E i, j \in 1..Len(trace) : i < j /\ trace[i] = first /\ trace[j] = second

-----------------------------------------------------------------------------
(* Properties of the draw tool and the selection, checked under SpecSelection *)

\* The last 'map.updateLayers' batch of the last handler run sent an empty
\* feature collection to every selection overlay layer.
LastBatchClearsOverlays ==
    /\ slast.emitted # <<>>
    /\ LET batch == slast.emitted[Len(slast.emitted)]
       IN  \A l \in SelectionOverlayLayers :
               l \in DOMAIN batch /\ batch[l] = EmptyCollection

\* C8: after deleteSelectedPolygon (with or without a draw tool) and after the
\* tool's polygon-deleted callback, the selections nodes,
\* isContainSelectedFrozenNodes and isDrawPolygon are empty, the stored polygon
\* is null, every dependent overlay layer has been sent an empty feature
\* collection, and no selection resolution was run.
C8_DeletionClearsSelectionState ==
    slast.op \in {"deleteSelectedPolygon", "polygonDeleted"} =>
        /\ \A key \in SelectionKeys : selection[key] = <<>>
        /\ currentSelectionPolygon = NoPolygon
        /\ LastBatchClearsOverlays
        /\ slast.resolved = 0

\* C8 witness: deleteSelectedPolygon ran with a tool holding a polygon and a
\* non-empty nodes selection, so both the tool's delete callback and the
\* explicit clear ran.
C8_Witness ==
    /\ slast.op = "deleteSelectedPolygon"
    /\ slast.preDraw /\ slast.preSelected
    /\ Len(slast.emitted) = 2
    /\ selection["nodes"] = <<>> /\ currentSelectionPolygon = NoPolygon

\* C9: deactivating the draw tool (handleDrawControl with a section other than
\* 'nodes' while a tool is attached) clears the nodes selection and the stored
\* polygon, removes the tool and unsets draw; and in every state with no tool
\* attached the nodes selection and the stored polygon are empty.
C9_NoSelectionOutlivesTool ==
    /\ (/\ slast.op = "handleDrawControl" /\ slast.arg # "nodes"
        /\ slast.preDraw /\ slast.hadMap)
          => (/\ ~draw /\ toolPolygon = NoPolygon
              /\ selection["nodes"] = <<>>
              /\ currentSelectionPolygon = NoPolygon)
    /\ ~draw => (selection["nodes"] = <<>> /\ currentSelectionPolygon = NoPolygon)

\* C9 witness: a tool with a non-empty nodes selection has been deactivated.
C9_Witness ==
    /\ slast.op = "handleDrawControl" /\ slast.arg = "agencies"
    /\ slast.preDraw /\ slast.hadMap /\ slast.preSelected
    /\ ~draw /\ selection["nodes"] = <<>>

\* C10: once a deleteUnusedNodes request has settled and its reactions have
\* run, the nodes selection is empty and the polygon is cleared, also when the
\* selection changed while the request was in flight.
C10_SettledRequestLeavesNoSelection ==
    slast.op = "requestFinally" =>
        /\ selection["nodes"] = <<>>
        /\ currentSelectionPolygon = NoPolygon
        /\ toolPolygon = NoPolygon

\* C10 witness: at the .finally reaction the nodes selection was non-empty and
\* differed from the one the request was sent for; it is empty afterwards.
C10_Witness ==
    /\ slast.op = "requestFinally" /\ slast.arg = "selectionChanged"
    /\ slast.preSelected
    /\ selection["nodes"] = <<>> /\ currentSelectionPolygon = NoPolygon

\* C11: whether a deleteUnusedNodes request fulfils or rejects, the failure
\* does not propagate out of the reaction chain; after the chain the nodes
\* selection is empty, the selection polygon is cleared and progress 1.0 has
\* been emitted, the request having started with progress 0.0; on rejection
\* the nodes collection is not refreshed and no layer is updated.
C11_RequestFailureIsContained ==
    /\ slast.op = "onDeleteSelectedNodes" => slast.progress = <<0>>
    /\ slast.op = "requestRejected" =>
          (~slast.refreshed /\ slast.emitted = <<>> /\ slast.resolved = 0)
    /\ slast.op = "requestFinally" =>
          /\ ~slast.propagated
          /\ selection["nodes"] = <<>>
          /\ currentSelectionPolygon = NoPolygon
          /\ slast.progress = <<1>>

\* C11 witness: the reactions of a rejected request have run while nodes were
\* selected.
C11_Witness ==
    /\ slast.op = "requestFinally" /\ slast.outcome = "rejected"
    /\ slast.preSelected /\ ~slast.propagated
    /\ selection["nodes"] = <<>> /\ slast.progress = <<1>>

\* C20: at most one draw tool is attached to the map, and
\* handleDrawControl('nodes') while a tool is attached changes nothing: no
\* tool is attached, and the tool, its polygon and the selection are kept.
C20_ActivationIsIdempotent ==
    /\ [](attachedTools <= 1 /\ (draw => attachedTools = 1))
    /\ [][(/\ slast'.op = "handleDrawControl" /\ slast'.arg = "nodes"
           /\ slast' # slast /\ draw)
             => (/\ draw' /\ attachedTools' = attachedTools
                 /\ toolPolygon' = toolPolygon
                 /\ selection' = selection
                 /\ currentSelectionPolygon' = currentSelectionPolygon)]_vars

\* C20 witness: handleDrawControl('nodes') ran while a tool with a polygon and
\* a non-empty nodes selection was attached.
C20_Witness ==
    /\ slast.op = "handleDrawControl" /\ slast.arg = "nodes"
    /\ slast.preDraw /\ slast.preSelected
    /\ draw /\ attachedTools = 1
    /\ toolPolygon # NoPolygon /\ selection["nodes"] # <<>>

\* C35: once isDrawPolygon is unset (a mode change to a non-drawing mode
\* unsets it), only a mode change into a drawing or select mode or the
\* tool's polygon finished / modified callback sets it again; a
\* 'collection.update.nodes' event does not.
C35_DrawPolygonStaysUnset ==
    [][(selection["isDrawPolygon"] = <<>> /\ selection'["isDrawPolygon"] # <<>>)
          => \/ slast'.op = "modeChange" /\ slast'.arg \in {"draw_polygon", "polygon", "select"}
             \/ slast'.op \in {"polygonFinished", "polygonModified"}]_vars

\* C37: one 'map.deleteSelectedPolygon' event, delivered while a draw tool
\* holding a polygon is attached, emits the selection-clearing
\* 'map.updateLayers' batch exactly once.
C37_DeleteClearsOnce ==
    [][(/\ slast' # slast /\ slast'.op = "deleteSelectedPolygon"
        /\ draw /\ toolPolygon # NoPolygon)
          => slast'.emitted = <<[l \in SelectionOverlayLayers |-> EmptyCollection]>>]_vars

\* C38: a deleteUnusedNodes request is sent only by the modal's confirm
\* action, taken while the modal is open; a 'map.deleteSelectedNodes' event
\* opens the modal and changes neither the selection, the polygon, the tool,
\* the nodes collection nor the requests, and emits nothing.
C38_DeletionNeedsConfirmation ==
    [][/\ Len(requests') > Len(requests) =>
             (slast'.op = "onDeleteSelectedNodes" /\ confirmModalDeleteIsOpen)
       /\ (slast'.op = "deleteSelectedNodes" /\ slast' # slast) =>
             /\ confirmModalDeleteIsOpen'
             /\ UNCHANGED <<selection, requests, nodesCollection,
                            currentSelectionPolygon, toolPolygon, draw>>
             /\ slast'.emitted = <<>> /\ slast'.progress = <<>>]_vars

\* C38 witness: 'map.deleteSelectedNodes' has opened the modal while nodes
\* are selected; no request has been sent and the selection is still there.
C38_Witness ==
    /\ slast.op = "deleteSelectedNodes"
    /\ confirmModalDeleteIsOpen
    /\ selection["nodes"] # <<>>
    /\ requests = <<>>

-----------------------------------------------------------------------------
(* Properties of the polygon-to-selection resolution, checked under        *)
(* SpecResolution                                                           *)

\* The simple polygons of a draw-tool output, in the order they are visited.
RECURSIVE AreasOfFeatures(_)
AreasOfFeatures(features) ==
    IF features = <<>> THEN <<>>
    ELSE (IF Head(features).type \in {"Polygon", "MultiPolygon"}
          THEN Head(features).parts ELSE <<>>) \o AreasOfFeatures(Tail(features))

AreasOf(polygonOrCollection) ==
    IF polygonOrCollection.type = "FeatureCollection"
    THEN AreasOfFeatures(polygonOrCollection.parts)
    ELSE polygonOrCollection.parts

\* The candidates matched by each simple polygon in turn, in candidate order:
\* the sequence of encounters.
RECURSIVE EncountersIn(_, _)
EncountersIn(areas, candidates) ==
    IF areas = <<>> THEN <<>>
    ELSE SelectSeq(candidates, LAMBDA f : f.pos \in Head(areas))
         \o EncountersIn(Tail(areas), candidates)

LastEncounters == EncountersIn(AreasOf(rlast.polygon), resCandidates)

\* The index of the first encounter of the candidate with the given id.
FirstEncounter(id) ==
    CHOOSE k \in 1..Len(LastEncounters) :
        /\ LastEncounters[k].id = id
        /\ \A j \in 1..(k - 1) : LastEncounters[j].id # id

ResolvedNodes == resSelection["nodes"]

IdsOf(features) == { features[k].id : k \in 1..Len(features) }

LastWasResolution == rlast.op = "resolve"

\* A matched candidate was left out because it is frozen.
FrozenWasExcluded ==
    \E k \in 1..Len(LastEncounters) : LastEncounters[k].is_frozen

\* C12: after a resolution, isContainSelectedFrozenNodes is true exactly when
\* a candidate matched by the polygon was excluded because it is frozen.
C12_FrozenFlagRecordsExclusion ==
    LastWasResolution =>
        resSelection["isContainSelectedFrozenNodes"] = <<FrozenWasExcluded>>

\* C13: for every input shape and candidate list, the resolved nodes selection
\* holds at most one entity per id, each being the first match of its id, in
\* the order of first encounter.
C13_DeduplicatedInEncounterOrder ==
    LastWasResolution =>
        /\ \A i, j \in 1..Len(ResolvedNodes) :
               i # j => ResolvedNodes[i].id # ResolvedNodes[j].id
        /\ \A i \in 1..Len(ResolvedNodes) :
               /\ ResolvedNodes[i].id \in IdsOf(LastEncounters)
               /\ ResolvedNodes[i] = LastEncounters[FirstEncounter(ResolvedNodes[i].id)]
        /\ \A i, j \in 1..Len(ResolvedNodes) :
               i < j => FirstEncounter(ResolvedNodes[i].id)
                          < FirstEncounter(ResolvedNodes[j].id)

\* C13 witness: a MultiPolygon or FeatureCollection matched a candidate more
\* than once and two nodes were selected in an order that is not the
\* collection's.
C13_Witness ==
    /\ LastWasResolution
    /\ rlast.polygon.type \in {"MultiPolygon", "FeatureCollection"}
    /\ Len(LastEncounters) > Cardinality(IdsOf(LastEncounters))
    /\ Len(ResolvedNodes) = 2
    /\ ResolvedNodes # SelectSeq(resCandidates,
                                 LAMBDA f : f.id \in IdsOf(ResolvedNodes))

\* The candidates {id 1 not frozen, id 2 frozen} of the frozen-exclusion
\* scenario, both at position 1.
FrozenScenarioCandidates ==
    << [id |-> 1, pos |-> 1, is_frozen |-> FALSE],
       [id |-> 2, pos |-> 1, is_frozen |-> TRUE] >>

\* C14: a resolved nodes selection never contains a frozen entity; it holds
\* the matched candidates minus the frozen ones, and for the candidates
\* {1 not frozen, 2 frozen} both inside the polygon it is exactly [1].
C14_FrozenNeverSelected ==
    LastWasResolution =>
        /\ \A k \in 1..Len(ResolvedNodes) : ~ResolvedNodes[k].is_frozen
        /\ IdsOf(ResolvedNodes) =
             IdsOf(SelectSeq(LastEncounters, LAMBDA f : ~f.is_frozen))
        /\ (resCandidates = FrozenScenarioCandidates /\ 1 \in UNION
              { AreasOf(rlast.polygon)[k] : k \in 1..Len(AreasOf(rlast.polygon)) })
             => ResolvedNodes = <<FrozenScenarioCandidates[1]>>

\* C14 witness: the frozen-exclusion scenario has been resolved with a simple
\* polygon around both candidates.
C14_Witness ==
    /\ LastWasResolution
    /\ resCandidates = FrozenScenarioCandidates
    /\ rlast.polygon = Polygon(Positions)
    /\ ResolvedNodes = <<FrozenScenarioCandidates[1]>>

\* C15: each resolution replaces the nodes selection: it holds exactly what
\* the last polygon resolves to, whatever was selected before, and
\* isDrawPolygon is true.
C15_ResolutionReplacesSelection ==
    LastWasResolution =>
        /\ IdsOf(ResolvedNodes) =
             IdsOf(SelectSeq(LastEncounters, LAMBDA f : ~f.is_frozen))
        /\ Len(ResolvedNodes) = Cardinality(IdsOf(ResolvedNodes))
        /\ resSelection["isDrawPolygon"] = <<TRUE>>

\* C15 witness: a polygon resolving to A was followed by one resolving to a
\* different B, and an entity of A is no longer selected.
C15_Witness ==
    /\ LastWasResolution
    /\ rlast.prevNodes # <<>> /\ ResolvedNodes # <<>>
    /\ ~(IdsOf(rlast.prevNodes) \subseteq IdsOf(ResolvedNodes))

-----------------------------------------------------------------------------
(* Properties of the polygon shapes, checked under SpecEquivalence *)

\* C36: resolving a MultiPolygon or a FeatureCollection whose only polygon
\* is P selects the same set of nodes as resolving the simple polygon P,
\* also when matched candidates have no id property.
C36_ShapeDoesNotChangeSelection ==
    (LastWasResolution /\ rlast.polygon.type # "Polygon") =>
        Range(resSelection["nodes"])
            = Range(filterFrozen(overlappingNodes(Polygon(ConstituentOf(rlast.polygon)),
                                                  resCandidates)))

-----------------------------------------------------------------------------
(* Properties of the deck.gl overlay, checked under SpecOverlay *)

SpinnerLayers == SelectSeq(deckLayers, LAMBDA layer : layer.id = "selected-nodes-spinner")

\* C23: the node-overlay radius is continuous at the band boundaries 10, 15
\* and 20: the radius of an overlay just computed at a boundary, which comes
\* from the lower band's formula, equals the upper band's formula there.
C23_RadiusContinuousAtBoundaries ==
    (olast.op = "effect" /\ SpinnerLayers # <<>>) =>
        /\ mapZoom = 10 => SpinnerLayers[1].size = radiusUpTo15(10)
        /\ mapZoom = 15 => SpinnerLayers[1].size = radiusUpTo20(15)
        /\ mapZoom = 20 => SpinnerLayers[1].size = radiusBeyond20(20)

\* C24: while state.mapLoaded is false, getDeckLayers returns the empty list
\* and the deck layers MapRenderer has published are empty, whatever the
\* payloads of the selected layers and the zoom.
C24_NoOverlayBeforeLoad ==
    ~mapLoaded =>
        /\ getDeckLayers(mapLoaded, layerData, mapZoom) = <<>>
        /\ ~rendererMapLoaded
        /\ deckLayers = <<>>

\* C24 witness: before the load, with both selected layers holding features,
\* 'map.updateLayers' has been delivered to updateDeckLayers and the published
\* list is empty.
C24_Witness ==
    /\ ~mapLoaded /\ olast.op = "emit"
    /\ "updateDeckLayers" \in Range(olast.order)
    /\ \A l \in OverlayLayerNames : layerData[l] # <<>>
    /\ deckLayers = <<>>

IsHexColor(chars) ==
    /\ Len(chars) = 7 /\ chars[1] = "#"
    /\ \A k \in 2..7 : HexValue(chars[k]) # NaN

DefaultColorOf(layer) ==
    IF layer.id = "selected-paths-animated" THEN DefaultPathColor ELSE DefaultNodeColor

\* C30: the colour of every feature of a published overlay layer is the RGB
\* decoding of its colour property if that is a valid hex colour and the
\* layer's default blue otherwise, and no component is NaN.
C30_OverlayColourDecodesOrDefaults ==
    \A k \in 1..Len(deckLayers) :
        \A j \in 1..Len(deckLayers[k].data) :
            LET color == deckLayers[k].data[j].color
                rgb == deckLayers[k].colors[j]
            IN  /\ rgb = hexToRgb(IF IsHexColor(color) THEN color ELSE <<>>,
                                  DefaultColorOf(deckLayers[k]))
                /\ \A c \in 1..4 : rgb[c] # NaN

-----------------------------------------------------------------------------
(* Properties of the draw tool's mode changes, checked under SpecToolMode *)

LastWasModeChange == rlast.op = "modeChange"

\* Every entry of the selection is an entity.
IsStructured(items) == \A k \in 1..Len(items) : IsObject(items[k])

\* C21: a mode change to a polygon-drawing or edit-select mode sets the
\* isDrawPolygon selection to true and leaves the nodes selection as it was.
C21_DrawingModeMarksDrawPolygon ==
    (LastWasModeChange /\ rlast.mode \in {"draw_polygon", "polygon", "select"}) =>
        /\ resSelection["isDrawPolygon"] = <<TRUE>>
        /\ resSelection["nodes"] = rlast.prevNodes

\* C21 witness: the tool entered polygon mode while nodes were selected and
\* isDrawPolygon was not set.
C21_Witness ==
    /\ LastWasModeChange /\ rlast.mode = "polygon"
    /\ rlast.prevIsDrawPolygon = <<>>
    /\ rlast.prevNodes # <<>> /\ IsStructured(rlast.prevNodes)
    /\ resSelection["isDrawPolygon"] = <<TRUE>>
    /\ resSelection["nodes"] = rlast.prevNodes

\* C22: a mode change modifies the nodes selection only by clearing it, and
\* only when the new mode is simple_select and the selection is not a list of
\* entities; a nodes selection of entities is unchanged by every mode change.
C22_LegacyCleanupOnly ==
    LastWasModeChange =>
        /\ resSelection["nodes"] # rlast.prevNodes =>
              (/\ resSelection["nodes"] = <<>>
               /\ rlast.mode = "simple_select"
               /\ ~IsStructured(rlast.prevNodes))
        /\ IsStructured(rlast.prevNodes) => resSelection["nodes"] = rlast.prevNodes

\* C22 witness: the tool went to simple_select while the nodes selection held
\* the legacy placeholder, and the selection has been cleared.
C22_Witness ==
    /\ LastWasModeChange /\ rlast.mode = "simple_select"
    /\ rlast.prevNodes = <<Primitive("true")>>
    /\ resSelection["nodes"] = <<>>
    /\ resSelection["isDrawPolygon"] = <<>>

-----------------------------------------------------------------------------
(* Properties of the style-reload recovery, checked under SpecStyle *)

\* The last step was a run of onStyleChange that got past its guard (the map
\* is there and its style is loaded).
LastWasStyleChange ==
    stlast.op \in {"style.load", "styledata", "timer"} /\ stlast.ran

\* The layers onStyleChange looked at: the layer manager's enabled layers, or
\* the section's configured layers when there are none.
LastLayersToCheck ==
    IF stlast.preEnabled # <<>> THEN stlast.preEnabled ELSE stateLayers

\* C16: when onStyleChange runs after a reload that removed all layers, the
\* layers on the map afterwards are exactly the layers that were enabled (or
\* the section's configured layers when none was): none missing, none added.
C16_ReloadRestoresEnabledLayers ==
    (LastWasStyleChange /\ stlast.preMapLayers = {}) =>
        /\ mapLayers = Range(LastLayersToCheck)
        /\ enabledLayers = LastLayersToCheck

\* C16 witness: two layers enabled through the layer manager, different from
\* the section's, were gone and have been restored.
C16_Witness ==
    /\ LastWasStyleChange /\ stlast.preMapLayers = {}
    /\ Len(stlast.preEnabled) = 2 /\ stlast.preEnabled # stateLayers
    /\ stlast.updateCalled
    /\ mapLayers = Range(stlast.preEnabled)

C18_ReloadRestoresAerialSource ==
    (aerialTilesUrl /\ LastWasStyleChange) => customTiles

\* C19: if the first of the layers onStyleChange looks at is on the map, it
\* does not call updateEnabledLayers and leaves the layers as they are.
C19_ShortcutLeavesLayersUntouched ==
    (/\ LastWasStyleChange
     /\ LastLayersToCheck # <<>>
     /\ LastLayersToCheck[1] \in stlast.preMapLayers)
        => (/\ ~stlast.updateCalled
            /\ mapLayers = stlast.preMapLayers
            /\ enabledLayers = stlast.preEnabled)

\* C19 witness: the first enabled layer was on the map, the second was not,
\* and onStyleChange left it so.
C19_Witness ==
    /\ LastWasStyleChange
    /\ Len(stlast.preEnabled) = 2
    /\ stlast.preEnabled[1] \in stlast.preMapLayers
    /\ stlast.preEnabled[2] \notin stlast.preMapLayers
    /\ ~stlast.updateCalled /\ mapLayers = stlast.preMapLayers

\* C28: after onStyleChange has run for a style reload, a partial one
\* included, every enabled layer is on the map.
C28_ReloadRestoresEveryEnabledLayer ==
    LastWasStyleChange => Range(enabledLayers) \subseteq mapLayers

-----------------------------------------------------------------------------
(* Properties of the aerial layer's visibility, checked under SpecAerial *)

\* The map is loaded with an aerial layer, the last step was a run of
\* onStyleChange, and no effect, deferred call or state update is outstanding.
AerialHandlersHaveRun ==
    /\ phase = "mounted" /\ aerialTilesUrl
    /\ mapLoaded /\ ~pendingMapLoaded
    /\ styleLoaded /\ LastWasStyleChange
    /\ pendingTimers = 0
    /\ aerialEffectDeps = <<showAerialTiles, mapLoaded>>

\* C29: on a loaded map with an aerial layer, once the handlers have run
\* after preference changes, zoom changes and style reloads, the aerial
\* layer's visibility on the map is that of showAerialTiles.
C29_AerialVisibilityFollowsFlag ==
    AerialHandlersHaveRun => aerialVisibility = getMapStyle(showAerialTiles)

-----------------------------------------------------------------------------
(* Properties of the native map events, checked under SpecMapEvents *)

\* The handlers' list of the last native event.
LastEvents == mapEvents[elast.eventName][elast.layerKey]

\* The places in that list whose handler executeEvents has to invoke: the
\* condition accepts the section and no accepted handler before it cancels.
LastExpected ==
    { i \in 1..Len(LastEvents) :
        /\ ~isCancelled(elast.e)
        /\ conditionAccepts(LastEvents[i], elast.section)
        /\ \A j \in 1..(i - 1) :
             ~(/\ conditionAccepts(LastEvents[j], elast.section)
               /\ LastEvents[j].cancels /\ elast.e.hasOriginal) }

\* C39: the list of a native event holds its descriptors in registration
\* order; executeEvents invokes, in that order, the handlers whose condition
\* accepts the active section, none if the event is already cancelled, and
\* none after a handler that has set cancelBubble.
C39_HandlersRunInOrderUntilCancelled ==
    elast.op = "nativeEvent" =>
        /\ \A i, j \in 1..Len(LastEvents) :
             i < j => LastEvents[i].handler < LastEvents[j].handler
        /\ \A i \in 1..Len(LastEvents) : LayerKeyOf(LastEvents[i]) = elast.layerKey
        /\ \A k, l \in 1..Len(elast.invoked) :
             k < l => elast.invoked[k] < elast.invoked[l]
        /\ Range(elast.invoked) = { LastEvents[i].handler : i \in LastExpected }
        /\ isCancelled(elast.e) => elast.invoked = <<>>

\* C39 witness: of three handlers the first was skipped for its condition,
\* the second ran and cancelled the event, and the third, whose condition
\* accepts the section, was not invoked.
C39_Witness ==
    /\ elast.op = "nativeEvent" /\ Len(LastEvents) = 3
    /\ elast.e.hasOriginal /\ ~elast.e.cancelBubble
    /\ ~conditionAccepts(LastEvents[1], elast.section)
    /\ conditionAccepts(LastEvents[2], elast.section) /\ LastEvents[2].cancels
    /\ conditionAccepts(LastEvents[3], elast.section)
    /\ elast.invoked = <<LastEvents[2].handler>>
    /\ elast.cancelBubble

-----------------------------------------------------------------------------
(* Properties of the routes, checked under SpecRoute *)

\* C40: a route element redirects to /login exactly when the user is not
\* authenticated; otherwise to /unauthorized exactly when permissions are
\* given and the user is not authorized for them; otherwise it renders the
\* header and the protected component.
C40_RouteOutcome ==
    routeProps.route # "none" =>
        routeOutcome =
            IF ~routeProps.isAuthenticated THEN "Navigate /login"
            ELSE IF /\ routeProps.permissions.given
                    /\ ~isAuthorized(routeProps.user, routeProps.permissions)
                 THEN "Navigate /unauthorized"
                 ELSE "Header + Component"

=============================================================================
